---------------------------- MODULE Spec2Model ----------------------------
(***************************************************************************)
(* A model of the expense-tracking chat bot: the throttling gate, the      *)
(* company approval service, the duplicate detector, the router with its   *)
(* ordered handler table and the handlers that create transactions.        *)
(*                                                                         *)
(* Each part has its own specification over the module's variables:        *)
(*   SpecThrottle  src/bot/middlewares/throttling.py as installed by main  *)
(*   SpecCompany   src/services/company.py (approval workflow)             *)
(*   SpecDup       src/services/duplicate_detector.py                      *)
(*   SpecBot       src/bot/handlers/* behind the router                    *)
(* Time is in whole seconds.                                               *)
(***************************************************************************)
EXTENDS Integers, Sequences, FiniteSets, TLC

VARIABLES
    now,            \* the wall clock, datetime.now(), in seconds
    user_cache,     \* per gate: ThrottlingMiddleware.user_cache (a TTLCache)
    accepted,       \* history: per gate and user, the times of the requests passed on
    lastReq,        \* history: the last request a gate has seen and what it did with it
    rejected,       \* history: per gate and user, was a request rejected since the last one passed on
    companies,      \* table companies: id -> [owner_id, auto_approve_limit]
    approval_rules, \* table approval_rules, in row order
    company_members,     \* table company_members
    transactions,        \* table transactions, in insertion order
    company_transactions,\* table company_transactions, in insertion order
    lastCall,       \* history: the last service call and its result
    lastSearch,     \* history: the last duplicate search of the table as it is, and what it returned
    fsm,            \* FSM storage: per user, the session state and its data
    users,          \* table users: id -> [active_company_id]
    lastUpdate,     \* history: the last update, the handler that took it and what it did
    redis,          \* the rate cache: pair -> [rate, expires]
    exchange_rates, \* table exchange_rates, in insertion order
    api,            \* environment: what the rate feed answers now (currency -> tenge; empty when it fails)
    lastRate,       \* history: the last rate request, what each source held, and the answer
    categories,     \* table categories, in insertion order
    seeding,        \* per user: handlers that have read "no categories" and not yet inserted
    lastCat,        \* history: the last category request and its answer
    scope,          \* the position of a get_session() block
    sessions,       \* the sessions the session factory has made
    committed,      \* the writes the database has made durable
    runs,           \* the handler runs in flight or just ended, each with its position and its log
    deploy,         \* the deploy daemon: the last request, its answer, the runs of the update script
    dispatcher      \* the middlewares on each observer (outermost first), the included routers, the FSM storage

throttleVars == <<now, user_cache, accepted, lastReq, rejected>>
companyVars == <<companies, approval_rules, company_members, company_transactions,
                 lastCall>>

dupVars == <<lastSearch>>
botVars == <<fsm, users, lastUpdate>>
rateVars == <<redis, exchange_rates, api, lastRate>>
catVars == <<categories, seeding, lastCat>>
sessVars == <<scope, sessions, committed>>
sysVars == <<runs, deploy, dispatcher>>
svcVars == <<rateVars, catVars, sessVars, sysVars>>

vars == <<throttleVars, companyVars, transactions, dupVars, botVars, svcVars>>

None == "None"

(***************************************************************************)
(* Bounds of the model.                                                    *)
(***************************************************************************)
MaxTime == 60
RateLimit == 2
MaxTx == 2

Users == {1, 2}
TickSteps == {30}

(***************************************************************************)
(* Tables shared by the services. Amounts are in hundredths; a column that *)
(* is NULL holds None (a string column) or 0 (an amount column).           *)
(***************************************************************************)
NoCall == [op |-> None, transaction_id |-> 0, result |-> FALSE]

\* A text column is a sequence of characters; NULL and '' are both <<>> (the
\* code only tests such a value for truth or matches it against a non-empty one).
NoText == <<>>

NoSearch == [user_id |-> 0, amount |-> 0, merchant |-> NoText, transaction_date |-> 0,
             time_window_hours |-> 0, result |-> {}, class |-> None]

NoOcr == [amount |-> 0, merchant |-> NoText, date |-> 0, category |-> None, confidence |-> 0]

NoUpdate == [kind |-> None, content |-> None, key |-> "", arg |-> "", ocr |-> NoOcr,
             mime_ok |-> TRUE]

NoData == [amount |-> 0, currency |-> None, merchant |-> NoText, transaction_date |-> 0,
           category_id |-> None, description |-> None]

\* The history entry before any update.
NoHandled == [update |-> NoUpdate, handler |-> None, user |-> 0, state |-> None,
              company |-> None, saved |-> 0, reply |-> None, buttons |-> {}, dup |-> None,
              raised |-> None]

\* An exact decimal is a fraction num/den; a rate that is None or 0 (both false
\* to `if rate:') is NoRate.
Rat(n, d) == [num |-> n, den |-> d]
NoRate == Rat(0, 1)

\* What redis GET answers for a missing or expired key.
NoBytes == [type |-> None, text |-> NoRate]

\* The history entry before any rate request.
NoRateCall == [op |-> None, from_currency |-> None, to_currency |-> None, amount |-> 0,
               cached |-> NoBytes, recent |-> NoRate, fetched |-> NoRate, last_known |-> NoRate,
               consulted |-> {}, source |-> None, raised |-> None,
               rate |-> NoRate, converted |-> NoRate, wrote |-> FALSE]

\* The rate cache, the rate table and the feed before anything has happened.
InitRatesIdle ==
    /\ redis = {}
    /\ exchange_rates = <<>>
    /\ api = {}
    /\ lastRate = NoRateCall

\* The history entry before any category request.
NoCatCall == [op |-> None, user_id |-> 0, arg |-> None, result |-> None, before |-> 0]

InitCatIdle ==
    /\ categories = <<>>
    /\ seeding = <<>>
    /\ lastCat = NoCatCall

\* No session scope has been entered.
NoScope == [pc |-> "idle", session |-> 0, attempt |-> 0, outcome |-> None, raised |-> None,
            pending |-> 0]

InitSessIdle ==
    /\ scope = NoScope
    /\ sessions = <<>>
    /\ committed = 0

\* A signature header that is absent.
NoSignature == [alg |-> None, key |-> None, body |-> None]

\* The deploy daemon before any request.
NoDeploy == [signature |-> NoSignature, body |-> None, event |-> None, status |-> 0,
             ran |-> FALSE, script_runs |-> 0]

\* main.py: on each observer the bot filter first, then the throttling gate.
main_middlewares == <<"BotFilterMiddleware", "ThrottlingMiddleware">>

\* main.py: dp = Dispatcher(storage=MemoryStorage()), the two middlewares on
\* each observer, and the router setup_handlers() built from the handler
\* modules as first imported (import 0).  attributes: the names under which
\* the object keeps its included routers.
main_dp ==
    [message |-> main_middlewares, callback_query |-> main_middlewares,
     routers |-> <<[router |-> "setup_handlers", imported |-> 0]>>, storage |-> "MemoryStorage",
     attributes |-> {"sub_routers"}]

\* No handler is running, the daemon has seen no request, the dispatcher is
\* the one main.py sets up.
InitSysIdle ==
    /\ runs = <<>>
    /\ deploy = NoDeploy
    /\ dispatcher = main_dp

InitSvcIdle ==
    /\ InitRatesIdle
    /\ InitCatIdle
    /\ InitSessIdle
    /\ InitSysIdle

\* The histories and the bot's stores before anything has happened.
InitBotIdle ==
    /\ lastSearch = NoSearch
    /\ fsm = <<>>
    /\ users = <<>>
    /\ lastUpdate = NoHandled

\* The state of the tables and histories a specification does not use.
InitCompanyIdle ==
    /\ companies = <<>>
    /\ approval_rules = <<>>
    /\ company_members = {}
    /\ transactions = <<>>
    /\ company_transactions = <<>>
    /\ lastCall = NoCall

\* str(uuid4()): an id no row of the table has (the next after the largest;
\* the row's position while no row has been removed).
FreshId(table) ==
    LET ids == {table[i].id : i \in DOMAIN table}
    IN  IF ids = {} THEN 1 ELSE 1 + CHOOSE m \in ids : \A x \in ids : x <= m

\* TransactionService.create_transaction: the row it adds. The signature has
\* no company_id and the row is built without one.
create_transaction(user_id, amount, currency, category_id, merchant, transaction_date, amount_primary, exchange_rate) ==
    [id |-> FreshId(transactions),
     user_id |-> user_id,
     category_id |-> category_id,
     amount |-> amount,
     currency |-> currency,
     amount_primary |-> IF amount_primary = 0 THEN amount ELSE amount_primary,
     exchange_rate |-> IF exchange_rate = 0 THEN 10000 ELSE exchange_rate,
     merchant |-> merchant,
     transaction_date |-> transaction_date,
     company_id |-> None,
     is_deleted |-> FALSE]


(***************************************************************************)
(* Throttling gate.                                                        *)
(***************************************************************************)
maxsize == 10000
ttl == 60
WindowSeconds == 60

\* main.py installs one ThrottlingMiddleware instance on each observer.
Gates == {"message", "callback_query"}

\* settings.rate_limit_requests_per_minute, as configured.
rate_limit == RateLimit

SeqToSet(s) == {s[i] : i \in DOMAIN s}

\* [x for x in s if P]: the subsequence of s of the elements in keep.
RECURSIVE FilterSeq(_, _)
FilterSeq(s, keep) ==
    IF s = <<>> THEN <<>>
    ELSE IF Head(s) \in keep THEN <<Head(s)>> \o FilterSeq(Tail(s), keep)
         ELSE FilterSeq(Tail(s), keep)

\* TTLCache: a function from the keys held to records [value, expires]; an
\* entry is gone once the timer has reached expires.
Live(cache, t) == {u \in DOMAIN cache : t < cache[u].expires}

\* TTLCache.get(key, default)
CacheGet(cache, u, t, default) ==
    IF u \in Live(cache, t) THEN cache[u].value ELSE default

\* TTLCache.__setitem__: expired entries are dropped, a new key in a full cache
\* evicts the entry that would expire first, the entry expires ttl from now.
CacheSet(cache, u, v, t) ==
    LET live == Live(cache, t)
        full == u \notin live /\ Cardinality(live) >= maxsize
        victim == CHOOSE w \in live : \A x \in live : cache[w].expires <= cache[x].expires
        kept == IF full THEN live \ {victim} ELSE live
    IN [w \in kept \cup {u} |->
          IF w = u THEN [value |-> v, expires |-> t + ttl] ELSE cache[w]]

RecentRequests_keep_all(reqs, t) == reqs

\* user_requests = [req_time for req_time in user_requests if req_time > cutoff_time]
RecentRequests(reqs, t) ==
    FilterSeq(reqs, {r \in SeqToSet(reqs) : r > t - WindowSeconds})

Throttled_off_by_one(reqs) == Len(reqs) > rate_limit

\* if len(user_requests) >= self.rate_limit
Throttled(reqs) == Len(reqs) >= rate_limit

\* The accepted requests of history h that lie in the 60 seconds before t.
InWindow(h, t) == FilterSeq(h, {r \in SeqToSet(h) : r > t - WindowSeconds /\ r <= t})

NoReq == [gate |-> None, user |-> 0, time |-> 0, prior |-> 0,
          notice |-> FALSE, handler |-> FALSE, afterReject |-> FALSE]

\* ThrottlingMiddleware.__call__ of gate g for an event of user u.
Request(g, u) ==
    LET user_requests == RecentRequests(CacheGet(user_cache[g], u, now, <<>>), now)
        prior == Len(InWindow(accepted[g][u], now))
    IN IF Throttled(user_requests)
       THEN \* event.answer(notice); return
            /\ lastReq' = [gate |-> g, user |-> u, time |-> now, prior |-> prior,
                           notice |-> TRUE, handler |-> FALSE, afterReject |-> FALSE]
            /\ rejected' = [rejected EXCEPT ![g][u] = TRUE]
            /\ UNCHANGED <<now, user_cache, accepted, companyVars, transactions, dupVars, botVars, svcVars>>
       ELSE \* record the request, then return await handler(event, data)
            /\ user_cache' = [user_cache EXCEPT
                                ![g] = CacheSet(@, u, Append(user_requests, now), now)]
            /\ accepted' = [accepted EXCEPT ![g][u] = Append(@, now)]
            /\ lastReq' = [gate |-> g, user |-> u, time |-> now, prior |-> prior,
                           notice |-> FALSE, handler |-> TRUE,
                           afterReject |-> rejected[g][u]]
            /\ rejected' = [rejected EXCEPT ![g][u] = FALSE]
            /\ UNCHANGED <<now, companyVars, transactions, dupVars, botVars, svcVars>>

\* Time passes; the history keeps what can still lie in a later window.
Tick(d) ==
    /\ now + d <= MaxTime
    /\ now' = now + d
    /\ accepted' = [g \in Gates |-> [u \in Users |-> InWindow(accepted[g][u], now + d)]]
    /\ UNCHANGED <<user_cache, lastReq, rejected, companyVars, transactions, dupVars, botVars, svcVars>>

\* The gates before any request.
InitThrottleIdle ==
    /\ user_cache = [g \in Gates |-> <<>>]
    /\ accepted = [g \in Gates |-> [u \in Users |-> <<>>]]
    /\ lastReq = NoReq
    /\ rejected = [g \in Gates |-> [u \in Users |-> FALSE]]

InitThrottle ==
    /\ now = 0
    /\ InitThrottleIdle
    /\ InitSvcIdle
    /\ InitCompanyIdle
    /\ InitBotIdle

NextThrottle ==
    \/ \E g \in Gates, u \in Users : Request(g, u)
    \/ \E d \in TickSteps : Tick(d)

SpecThrottle == InitThrottle /\ [][NextThrottle]_vars

C2_AcceptedBelowLimit ==
    (lastReq.gate # None /\ lastReq.prior < rate_limit) => lastReq.handler

\* After the window rolled over, a user who had been rejected is passed on
\* again, with the earlier requests recorded but no longer counted.
C2_Witness ==
    /\ lastReq.gate # None /\ lastReq.handler /\ lastReq.afterReject
    /\ lastReq.time >= WindowSeconds
    /\ lastReq.prior < rate_limit

(***************************************************************************)
(* Company service: the approval workflow.                                 *)
(***************************************************************************)
CompanyIds == {"c1"}
AllUserIds == {1, 2, 3}
CategoryIds == {"cat1", "cat2"}
Amounts == {4999900, 5000000, 5000100}
AutoApproveLimits == {0, 5000000}
Reasons == {"no receipt"}
Submitters == {2}
Rejecters == {1}

\* The ApprovalRule rows a company may have been given.
RuleAbove == [company_id |-> "c1", min_amount |-> 5000100, max_amount |-> 0,
              category_id |-> None, is_active |-> TRUE]
RuleCat2 == [company_id |-> "c1", min_amount |-> 0, max_amount |-> 0,
             category_id |-> "cat2", is_active |-> TRUE]
RuleOff == [company_id |-> "c1", min_amount |-> 0, max_amount |-> 0,
            category_id |-> None, is_active |-> FALSE]
RuleTables == {<<>>, <<RuleCat2>>, <<RuleAbove, RuleOff>>}

\* The body of the rule loop of check_approval_required: no `continue` taken.
RuleMatches(rule, amount, category_id) ==
    /\ ~(rule.min_amount # 0 /\ amount < rule.min_amount)
    /\ ~(rule.max_amount # 0 /\ amount > rule.max_amount)
    /\ ~(rule.category_id # None /\ rule.category_id # category_id)

check_approval_required_ignore_limit(company_id, amount, category_id) ==
    \E i \in DOMAIN approval_rules :
        /\ approval_rules[i].company_id = company_id /\ approval_rules[i].is_active
        /\ RuleMatches(approval_rules[i], amount, category_id)

\* CompanyService.check_approval_required
check_approval_required(company_id, amount, category_id) ==
    IF company_id \notin DOMAIN companies THEN FALSE
    ELSE LET auto_approve_limit == companies[company_id].auto_approve_limit
         IN IF auto_approve_limit > 0 /\ amount <= auto_approve_limit THEN FALSE
            ELSE IF \E i \in DOMAIN approval_rules :
                       /\ approval_rules[i].company_id = company_id
                       /\ approval_rules[i].is_active
                       /\ RuleMatches(approval_rules[i], amount, category_id)
                 THEN TRUE
                 ELSE amount > auto_approve_limit

\* CompanyService.create_company_transaction: the row it adds (opened records
\* the status the row was created with).
create_company_transaction(transaction_id, company_id, requires_approval, auto_approved_by) ==
    [transaction_id |-> transaction_id,
     company_id |-> company_id,
     status |-> IF requires_approval THEN "pending" ELSE "approved",
     approved_by |-> IF ~requires_approval THEN auto_approved_by ELSE 0,
     approved_at |-> IF ~requires_approval THEN now ELSE 0,
     rejection_reason |-> None,
     opened |-> IF requires_approval THEN "pending" ELSE "approved"]

\* A company expense is recorded through the services: the transaction, then
\* its approval envelope, opened as check_approval_required decides.
OpenCompanyTransaction(u, c, amount, category_id) ==
    /\ Len(transactions) < MaxTx
    /\ LET tx == create_transaction(u, amount, "KZT", category_id, NoText, now, 0, 0)
           requires_approval == check_approval_required(c, amount, category_id)
       IN /\ transactions' = Append(transactions, tx)
          /\ company_transactions' =
                Append(company_transactions,
                       create_company_transaction(tx.id, c, requires_approval, u))
          /\ lastCall' = [op |-> "create_company_transaction", transaction_id |-> tx.id,
                          result |-> TRUE]
    /\ UNCHANGED <<throttleVars, companies, approval_rules, company_members, dupVars, botVars, svcVars>>

\* select(CompanyTransaction).where(transaction_id == ...): the row's position, 0 if none.
CompanyTxIndex(transaction_id) ==
    IF \E i \in DOMAIN company_transactions :
          company_transactions[i].transaction_id = transaction_id
    THEN CHOOSE i \in DOMAIN company_transactions :
          company_transactions[i].transaction_id = transaction_id
    ELSE 0

ResolveGuard_none(i) == i # 0

\* if not company_tx or company_tx.status != 'pending': return False
ResolveGuard(i) == i # 0 /\ company_transactions[i].status = "pending"

\* CompanyService.approve_transaction
approve_transaction(transaction_id, approved_by) ==
    LET i == CompanyTxIndex(transaction_id)
    IN /\ IF ~ResolveGuard(i)
          THEN /\ lastCall' = [op |-> "approve_transaction",
                               transaction_id |-> transaction_id, result |-> FALSE]
               /\ UNCHANGED company_transactions
          ELSE /\ company_transactions' =
                     [company_transactions EXCEPT
                        ![i].status = "approved",
                        ![i].approved_by = approved_by,
                        ![i].approved_at = now]
               /\ lastCall' = [op |-> "approve_transaction",
                               transaction_id |-> transaction_id, result |-> TRUE]
       /\ UNCHANGED <<throttleVars, companies, approval_rules, company_members,
                      transactions, dupVars, botVars, svcVars>>

\* CompanyService.reject_transaction
reject_transaction(transaction_id, rejected_by, reason) ==
    LET i == CompanyTxIndex(transaction_id)
    IN /\ IF ~ResolveGuard(i)
          THEN /\ lastCall' = [op |-> "reject_transaction",
                               transaction_id |-> transaction_id, result |-> FALSE]
               /\ UNCHANGED company_transactions
          ELSE /\ company_transactions' =
                     [company_transactions EXCEPT
                        ![i].status = "rejected",
                        ![i].approved_by = rejected_by,
                        ![i].approved_at = now,
                        ![i].rejection_reason = reason]
               /\ lastCall' = [op |-> "reject_transaction",
                               transaction_id |-> transaction_id, result |-> TRUE]
       /\ UNCHANGED <<throttleVars, companies, approval_rules, company_members,
                      transactions, dupVars, botVars, svcVars>>

\* A company as create_company leaves it (the owner a member with approval
\* rights), with a second member without approval rights; user 3 is no member.
InitCompany ==
    /\ now = 0
    /\ InitThrottleIdle
    /\ InitSvcIdle
    /\ \E limit \in AutoApproveLimits :
          companies = [c \in CompanyIds |-> [owner_id |-> 1, auto_approve_limit |-> limit]]
    /\ approval_rules \in RuleTables
    /\ company_members =
          {[id |-> 1, company_id |-> "c1", user_id |-> 1, role |-> "owner",
            can_approve |-> TRUE, is_active |-> TRUE],
           [id |-> 2, company_id |-> "c1", user_id |-> 2, role |-> "employee",
            can_approve |-> FALSE, is_active |-> TRUE]}
    /\ transactions = <<>>
    /\ company_transactions = <<>>
    /\ lastCall = NoCall
    /\ InitBotIdle

NextCompany ==
    \/ \E u \in Submitters, c \in CompanyIds, a \in Amounts, cat \in CategoryIds :
          OpenCompanyTransaction(u, c, a, cat)
    \/ \E t \in 1..MaxTx, u \in AllUserIds : approve_transaction(t, u)
    \/ \E t \in 1..MaxTx, u \in Rejecters, r \in Reasons : reject_transaction(t, u, r)

SpecCompany == InitCompany /\ [][NextCompany]_vars

\* The transaction row with the given id.
TransactionById(id) == transactions[id]

\* No active approval rule of the company matches the amount and category.
NoRuleApplies(company_id, amount, category_id) ==
    \A i \in DOMAIN approval_rules :
        (approval_rules[i].company_id = company_id /\ approval_rules[i].is_active)
            => ~RuleMatches(approval_rules[i], amount, category_id)

C4_OpenedByThreshold ==
    \A i \in DOMAIN company_transactions :
        LET row == company_transactions[i]
            tx == TransactionById(row.transaction_id)
            T == companies[row.company_id].auto_approve_limit
        IN NoRuleApplies(row.company_id, tx.amount, tx.category_id)
              => /\ tx.amount <= T => row.opened = "approved"
                 /\ tx.amount > T => row.opened = "pending"

\* With threshold 50,000.00 and no matching rule, 49,999.00 was opened approved
\* and 50,001.00 was opened pending.
C4_Witness ==
    /\ Len(company_transactions) = 2
    /\ companies["c1"].auto_approve_limit = 5000000
    /\ NoRuleApplies("c1", 4999900, TransactionById(1).category_id)
    /\ NoRuleApplies("c1", 5000100, TransactionById(2).category_id)
    /\ TransactionById(1).amount = 4999900 /\ company_transactions[1].opened = "approved"
    /\ TransactionById(2).amount = 5000100 /\ company_transactions[2].opened = "pending"

\* The active members of a company who have approval rights.
Approvers(company_id) ==
    {m.user_id : m \in {x \in company_members :
                          x.company_id = company_id /\ x.can_approve /\ x.is_active}}

\* C5: a record opened as pending is approved only by a user who has approval
\* rights in its company.
C5_ApprovedOnlyByApprover ==
    \A i \in DOMAIN company_transactions :
        LET row == company_transactions[i]
        IN (row.opened = "pending" /\ row.status = "approved")
              => row.approved_by \in Approvers(row.company_id)

(***************************************************************************)
(* Duplicate detector.                                                     *)
(***************************************************************************)
SecondsPerHour == 3600
ExactSeconds == 5
NearSeconds == 60

Ma == <<"M", "a">>
ma_x == <<"m", "a", "x">>
DupUsers == {1, 2}
DupAmounts == {250000, 250100}
DupMerchants == {NoText, Ma}
\* The transactions that may exist: <<user, amount, merchant, time>>.
DupRows == {<<1, 250000, Ma, 0>>, <<1, 250000, Ma, 5397>>, <<1, 250100, Ma, 5397>>,
            <<1, 250000, ma_x, 5397>>, <<1, 250000, NoText, 5397>>, <<2, 250000, Ma, 5397>>}
SearchDates == {3, 60, 5400}
WindowHours == {1, 2, 24}

Abs(x) == IF x < 0 THEN 0 - x ELSE x

\* str.lower() / the case folding of ILIKE on the letters used here.
Lower(c) == IF c = "M" THEN "m" ELSE IF c = "A" THEN "a" ELSE IF c = "X" THEN "x" ELSE c

\* column.ilike('%' + pat + '%'): pat occurs in s, letters compared without
\* case, '_' in pat standing for any one character.
ILikeContains(s, pat) ==
    \E k \in 0..(Len(s) - Len(pat)) :
        \A j \in 1..Len(pat) : pat[j] = "_" \/ Lower(pat[j]) = Lower(s[k + j])

\* if merchant: query.where(or_(merchant == ..., merchant.ilike(...)))
MerchantFilter(row_merchant, merchant) ==
    merchant # NoText => (row_merchant = merchant \/ ILikeContains(row_merchant, merchant))

\* The rows the query of find_duplicates selects (by id).
QueryRows(user_id, amount, merchant, transaction_date, time_window_hours) ==
    {i \in DOMAIN transactions :
        /\ transactions[i].user_id = user_id
        /\ transactions[i].amount = amount
        /\ transactions[i].transaction_date >= transaction_date - time_window_hours * SecondsPerHour
        /\ transactions[i].transaction_date <= transaction_date + time_window_hours * SecondsPerHour
        /\ ~transactions[i].is_deleted
        /\ MerchantFilter(transactions[i].merchant, merchant)}

Classify_far_is_near(rows, merchant, transaction_date) ==
    [class |-> "near", result |-> rows]

\* The classification loop of find_duplicates and what it returns.
Classify(rows, merchant, transaction_date) ==
    LET time_diff(i) == Abs(transactions[i].transaction_date - transaction_date)
        exact_duplicates == {i \in rows : time_diff(i) <= ExactSeconds}
        near_duplicates == {i \in rows : time_diff(i) > ExactSeconds /\ time_diff(i) <= NearSeconds}
    IN IF exact_duplicates # {} THEN [class |-> "exact", result |-> exact_duplicates]
       ELSE IF near_duplicates # {} /\ merchant = NoText
            THEN [class |-> "near", result |-> near_duplicates]
            ELSE [class |-> None, result |-> {}]

\* DuplicateDetector.find_duplicates
find_duplicates(user_id, amount, merchant, transaction_date, time_window_hours) ==
    Classify(QueryRows(user_id, amount, merchant, transaction_date, time_window_hours),
             merchant, transaction_date)

\* A transaction is recorded (by any channel); the search history is of the
\* table before it and is dropped.
AddTransaction(u, amount, merchant, date) ==
    /\ Len(transactions) < MaxTx
    /\ transactions' = Append(transactions,
                              create_transaction(u, amount, "KZT", "food", merchant, date, 0, 0))
    /\ lastSearch' = NoSearch
    /\ UNCHANGED <<throttleVars, companyVars, botVars, svcVars>>

\* TransactionService.get_transaction_by_id: the positions of the user's
\* row with this id that is not deleted.
get_transaction_by_id(table, transaction_id, user_id) ==
    {i \in DOMAIN table : /\ table[i].id = transaction_id
                          /\ table[i].user_id = user_id
                          /\ ~table[i].is_deleted}

\* Mutant: the row is removed.
delete_transaction_purges(transaction_id, user_id) ==
    LET Keep(r) == r.id # transaction_id
    IN  /\ get_transaction_by_id(transactions, transaction_id, user_id) # {}
        /\ transactions' = SelectSeq(transactions, Keep)
        /\ lastCall' = [op |-> "delete_transaction", transaction_id |-> transaction_id, result |-> TRUE]
        /\ lastSearch' = NoSearch
        /\ UNCHANGED <<throttleVars, companies, approval_rules, company_members,
                       company_transactions, botVars, svcVars>>

\* TransactionService.delete_transaction succeeding: soft delete.
delete_transaction(transaction_id, user_id) ==
    LET found == get_transaction_by_id(transactions, transaction_id, user_id)
    IN  /\ found # {}
        /\ transactions' = [i \in DOMAIN transactions |->
                               IF i \in found THEN [transactions[i] EXCEPT !.is_deleted = TRUE]
                               ELSE transactions[i]]
        /\ lastCall' = [op |-> "delete_transaction", transaction_id |-> transaction_id, result |-> TRUE]
        /\ lastSearch' = NoSearch
        /\ UNCHANGED <<throttleVars, companies, approval_rules, company_members,
                       company_transactions, botVars, svcVars>>

\* A caller searches for duplicates of a candidate.
SearchDuplicates(u, amount, merchant, date, hours) ==
    /\ LET found == find_duplicates(u, amount, merchant, date, hours)
       IN lastSearch' = [user_id |-> u, amount |-> amount, merchant |-> merchant,
                         transaction_date |-> date, time_window_hours |-> hours,
                         result |-> found.result, class |-> found.class]
    /\ UNCHANGED <<throttleVars, companyVars, transactions, botVars, svcVars>>

InitDup ==
    /\ now = 0
    /\ InitThrottleIdle
    /\ InitSvcIdle
    /\ InitCompanyIdle
    /\ InitBotIdle

NextDup ==
    \/ \E r \in DupRows : AddTransaction(r[1], r[2], r[3], r[4])
    \/ \E t \in 1..MaxTx, u \in DupUsers : delete_transaction(t, u)
    \/ \E a \in DupAmounts, m \in DupMerchants, d \in SearchDates, h \in WindowHours :
          SearchDuplicates(1, a, m, d, h)

SpecDup == InitDup /\ [][NextDup]_vars

\* The existing, non-deleted transactions of the user the last search was for.
Existing == {i \in DOMAIN transactions :
                transactions[i].user_id = lastSearch.user_id /\ ~transactions[i].is_deleted}

\* C10: for an existing transaction of the user at time T, a candidate with
\* the same amount and merchant at T+3 s gets it back as an exact duplicate,
\* a candidate with the same amount and merchant at T+90 min does not get it
\* back, and a candidate with a different amount never gets it back.
C10_DuplicateWindow ==
    lastSearch.user_id # 0 =>
      \A i \in Existing :
        LET row == transactions[i]
            same == row.amount = lastSearch.amount /\ row.merchant = lastSearch.merchant
        IN /\ (same /\ lastSearch.transaction_date = row.transaction_date + 3)
                => (i \in lastSearch.result /\ lastSearch.class = "exact")
           /\ (same /\ lastSearch.transaction_date = row.transaction_date + 90 * 60)
                => i \notin lastSearch.result
           /\ row.amount # lastSearch.amount => i \notin lastSearch.result

\* One search met all three cases: a transaction 3 s before the candidate was
\* returned as exact, one with the same amount and merchant 90 min before it
\* and inside the window was not, and neither was one with another amount.
C10_Witness ==
    /\ lastSearch.user_id # 0 /\ lastSearch.merchant # NoText
    /\ lastSearch.time_window_hours >= 2
    /\ lastSearch.class = "exact"
    /\ \E i \in Existing :
          /\ transactions[i].amount = lastSearch.amount
          /\ transactions[i].merchant = lastSearch.merchant
          /\ transactions[i].transaction_date + 3 = lastSearch.transaction_date
          /\ i \in lastSearch.result
    /\ \E i \in Existing :
          /\ transactions[i].amount = lastSearch.amount
          /\ transactions[i].merchant = lastSearch.merchant
          /\ transactions[i].transaction_date + 90 * 60 = lastSearch.transaction_date
          /\ i \notin lastSearch.result

(***************************************************************************)
(* The router and the handlers. A text message is its leading token (a     *)
(* command or a button's emoji, "" if none) and the rest; callback data is *)
(* the part before the colon and the part after it. A photo or document    *)
(* carries the receipt the OCR service reads from it. Emoji are written by *)
(* their short names and Russian words in Latin letters.                   *)
(***************************************************************************)
BotUsers == {1}
PrimaryCurrency == "KZT"
Magnum == <<"M", "a", "g", "n", "u", "m">>

CategoryStates == {"CategoryStates:viewing_categories", "CategoryStates:creating_category",
                   "CategoryStates:entering_name_ru", "CategoryStates:entering_name_kz",
                   "CategoryStates:selecting_icon", "CategoryStates:editing_category",
                   "CategoryStates:confirming_delete"}

H(name, states, op, key, arg) ==
    [name |-> name, states |-> states, op |-> op, key |-> key, arg |-> arg]

\* The message handlers in the order setup_handlers registers their routers;
\* states = {} is a handler with no state filter.
MessageHandlers == <<
    H("start.cmd_start", {}, "command", "/start", ""),
    H("start.cmd_help", {}, "eq", "/help", ""),
    H("photo.process_receipt_photo", {}, "photo", "", ""),
    H("photo.process_manual_amount_input", {"ReceiptStates:editing_amount"}, "any", "", ""),
    H("photo.process_description_request", {"ReceiptStates:asking_description"}, "any", "", ""),
    H("document.process_receipt_document", {}, "document", "", ""),
    H("stats.cmd_stats", {}, "eq", "/stats", ""),
    H("stats.cmd_today", {}, "eq", "/today", ""),
    H("stats.cmd_last", {}, "eq", "/last", ""),
    H("categories.cmd_categories", {}, "eq", "/categories", ""),
    H("categories.process_category_name_ru", {"CategoryStates:entering_name_ru"}, "any", "", ""),
    H("categories.process_category_name_kz", {"CategoryStates:entering_name_kz"}, "any", "", ""),
    H("currency.cmd_rates", {}, "eq", "/rates", ""),
    H("currency.cmd_convert", {}, "prefix", "/convert", ""),
    H("export.cmd_export", {}, "eq", "/export", ""),
    H("settings.cmd_settings", {}, "prefix", ":gear:", ""),
    H("settings.cmd_settings", {}, "eq", "/settings", ""),
    H("company.cmd_company", {}, "prefix", ":briefcase:", ""),
    H("company.cmd_company", {}, "command", "/company", ""),
    H("company.process_company_name", {"CompanyStates:entering_name"}, "text", "", ""),
    H("company.process_company_description", {"CompanyStates:entering_description"}, "text", "", ""),
    H("company.process_invite_code", {"CompanyStates:entering_invite_code"}, "text", "", ""),
    H("company.join_company", {}, "command", "/join", ""),
    H("analytics.analytics_menu", {}, "prefix", ":bar_chart:", ""),
    H("keyboard.handle_add_expense", {}, "prefix", ":heavy_plus_sign:", ""),
    H("keyboard.handle_categories", {}, "prefix", ":open_file_folder:", ""),
    H("keyboard.handle_export", {}, "prefix", ":outbox_tray:", ""),
    H("keyboard.handle_company", {}, "prefix", ":briefcase:", ""),
    H("text_expense.process_text_expense", {}, "text_not_command", "", ""),
    H("expense.process_expense_input", {"ExpenseStates:waiting_for_amount"}, "text_not_command", "", ""),
    H("expense.process_text_expense", {}, "text_not_command", "", "") >>

\* The callback handlers, in registration order, that accept the callback data
\* the model sends.
CallbackHandlers == <<
    H("photo.process_currency_selection", {"ReceiptStates:selecting_currency"}, "prefix", "currency", ""),
    H("photo.process_receipt_category", {"ReceiptStates:selecting_category"}, "prefix", "quick_category", ""),
    H("photo.confirm_duplicate_photo", {"ReceiptStates:confirming_duplicate"}, "eq", "confirm_duplicate_photo", ""),
    H("photo.cancel_duplicate_photo", {"ReceiptStates:confirming_duplicate"}, "eq", "cancel_duplicate_photo", ""),
    H("photo.process_amount_clarification", {"ReceiptStates:clarifying_amount"}, "prefix", "clarify_amount", ""),
    H("document.confirm_duplicate_document", {"ReceiptStates:confirming_duplicate"}, "eq", "confirm_duplicate_document", ""),
    H("document.cancel_duplicate_document", {"ReceiptStates:confirming_duplicate"}, "eq", "cancel_duplicate_document", ""),
    H("categories.cancel_category_action", CategoryStates, "eq", "cancel", ""),
    H("company.activate_company", {}, "prefix", "company_activate", ""),
    H("company.switch_company_mode", {}, "eq", "company_switch", ""),
    H("expense_callbacks.handle_expense_manual", {}, "eq", "expense", "manual"),
    H("expense.process_quick_category", {"ExpenseStates:waiting_for_category"}, "prefix", "quick_category", ""),
    H("expense.process_category_selection", {"ExpenseStates:waiting_for_category"}, "prefix", "select_category", ""),
    H("expense.cancel_expense", {}, "eq", "cancel", "") >>

\* text.startswith('/')
StartsWithSlash(key) ==
    key \in {"/start", "/help", "/stats", "/today", "/last", "/categories", "/rates",
             "/convert", "/export", "/settings", "/company", "/join"}

\* The filters of a handler accept the update in session state st.
Matches(h, upd, st) ==
    /\ h.states = {} \/ st \in h.states
    /\ CASE h.op = "any" -> TRUE
         [] h.op = "text" -> upd.content = "text"
         [] h.op = "photo" -> upd.content = "photo"
         [] h.op = "document" -> upd.content = "document"
         [] h.op = "eq" -> upd.content \in {"text", "callback"} /\ upd.key = h.key /\ upd.arg = h.arg
         [] h.op = "prefix" -> upd.content \in {"text", "callback"} /\ upd.key = h.key
         [] h.op = "command" -> upd.content = "text" /\ upd.key = h.key
         [] h.op = "text_not_command" -> upd.content = "text" /\ ~StartsWithSlash(upd.key)

\* The router: the first handler in the table whose filters accept the update
\* takes it (0 if none does); a handler that returns has handled the update.
DispatchIndex(table, upd, st) ==
    LET hits == {i \in DOMAIN table : Matches(table[i], upd, st)}
    IN IF hits = {} THEN 0 ELSE CHOOSE i \in hits : \A j \in hits : i <= j

Dispatch(table, upd, st) ==
    LET i == DispatchIndex(table, upd, st)
    IN IF i = 0 THEN "UNHANDLED" ELSE table[i].name

\* message.text: the leading token and the rest.
Text(upd) == IF upd.key = "" THEN upd.arg ELSE upd.key \o " " \o upd.arg
TextOf(upd) == <<upd.key, upd.arg>>
NoParse == [amount |-> 0, currency |-> None, description |-> None]

\* ExpenseParser.parse_expense
parse_expense(upd) ==
    IF TextOf(upd) = <<"", "500 obed">>
    THEN [amount |-> 50000, currency |-> "KZT", description |-> "obed"]
    ELSE NoParse

\* TextExpenseParser.extract_amount; without a match parse_with_ai is asked, and
\* answers None when no OpenAI key is configured.
extract_amount(upd) ==
    IF TextOf(upd) = <<"", "500 obed">>
    THEN [amount |-> 50000, currency |-> "KZT", description |-> "500 obed"]
    ELSE NoParse

\* TextExpenseParser.detect_category
detect_category(upd) ==
    IF TextOf(upd) \in {<<"", "500 obed">>, <<"", "obed">>} THEN "food" ELSE "other"

\* CaptionParser.parse(text)['category']
caption_category(upd) ==
    IF TextOf(upd) \in {<<"", "500 obed">>, <<"", "obed">>} THEN "food" ELSE None

\* The category_mapping of the receipt handlers.
category_mapping(detected_category) ==
    IF detected_category = "utilities" THEN "home"
    ELSE IF detected_category \in {"food", "transport", "shopping", "health",
                                   "entertainment", "donation", "other"}
         THEN detected_category
         ELSE "other"

\* The category names text_expense looks up that exist among the seeded
\* default categories.
TextCategoryFound(category) ==
    category \in {"food", "transport", "home", "entertainment", "education"}

\* The parameters of TransactionService.create_transaction.
CreateTransactionParams ==
    {"session", "user_id", "amount", "currency", "category_id", "description", "merchant",
     "transaction_date", "amount_primary", "exchange_rate", "receipt_image_url",
     "ocr_confidence", "metadata"}

\* The keyword arguments of the calls.
PhotoCallKeywords ==
    {"session", "user_id", "amount", "currency", "category_id", "merchant", "transaction_date",
     "amount_primary", "exchange_rate", "company_id", "receipt_image_url", "ocr_confidence"}
DocumentCallKeywords ==
    {"session", "user_id", "amount", "currency", "category_id", "merchant", "transaction_date",
     "amount_primary", "exchange_rate", "receipt_image_url", "ocr_confidence", "metadata"}
TextCallKeywords ==
    {"session", "user_id", "amount", "currency", "category_id", "description", "merchant",
     "transaction_date", "amount_primary", "exchange_rate"}

\* Mutant: create_transaction takes any keyword.
Binds_any_keyword(keywords) == TRUE

\* A call with these keywords binds; otherwise Python raises TypeError.
Binds(keywords) == keywords \subseteq CreateTransactionParams

\* "receipt" in str(current_state): the names of bot/states.py that contain the
\* lower-case word (the group is spelled "ReceiptStates", so there are none).
ContainsReceipt(st) == st \in {}

\* The receipt date, replaced by now when more than 30 days old.
RecentOrNow(date) == IF (now - date) \div 86400 > 30 THEN now ELSE date

\* ClarificationHelper.needs_amount_clarification, with no amount in the caption.
needs_amount_clarification(ocr) == ocr.amount = 0 \/ ocr.confidence < 50

YesNoPhoto == {"confirm_duplicate_photo", "cancel_duplicate_photo"}
YesNoDocument == {"confirm_duplicate_document", "cancel_duplicate_document"}

\* What a handler leaves behind: the session, the table, and the history entry.
Reply(u, upd, h, st, data, tx, saved, reply, buttons, dup) ==
    /\ fsm' = [fsm EXCEPT ![u] = [state |-> st, data |-> data]]
    /\ transactions' = tx
    /\ users' = users
    /\ lastUpdate' = [update |-> upd, handler |-> h, user |-> u, state |-> fsm[u].state,
                      company |-> users[u].active_company_id, saved |-> saved,
                      reply |-> reply, buttons |-> buttons, dup |-> dup, raised |-> None]

\* The same for a handler that has not called find_duplicates: handling this
\* update made no search.
Answer(u, upd, h, st, data, tx, saved, reply, buttons, dup) ==
    /\ Reply(u, upd, h, st, data, tx, saved, reply, buttons, dup)
    /\ lastSearch' = NoSearch

\* The handler has called duplicate_detector.find_duplicates and then goes on
\* by what it found: the yes/no question (or the skip notice), or
\* create_transaction, which saves when the call binds and otherwise raises
\* into the handler's except branch.
AfterSearch(u, upd, h, data, category_id, hours, on_found, on_raise) ==
    LET found == find_duplicates(u, data.amount, data.merchant, data.transaction_date, hours)
        row == create_transaction(u, data.amount, data.currency, category_id, data.merchant,
                                  data.transaction_date, 0, 0)
    IN  /\ lastSearch' = [user_id |-> u, amount |-> data.amount, merchant |-> data.merchant,
                          transaction_date |-> data.transaction_date, time_window_hours |-> hours,
                          result |-> found.result, class |-> found.class]
        /\ IF found.result # {}
           THEN Reply(u, upd, h, on_found.state, on_found.data, transactions, 0, on_found.reply,
                      on_found.buttons, found.class)
           ELSE IF on_raise.binds
           THEN /\ Len(transactions) < MaxTx
                /\ Reply(u, upd, h, None, NoData, Append(transactions, row), row.id, "receipt.saved", {}, None)
           ELSE Reply(u, upd, h, on_raise.state, on_raise.data, transactions, 0, on_raise.reply,
                      on_raise.buttons, None)

\* The handler returns (or raises) without touching session or table.
Nothing(u, upd, h, reply) ==
    Answer(u, upd, h, fsm[u].state, fsm[u].data, transactions, 0, reply, {}, None)

\* Mutant: the reply is sent and the session state kept.
Cleared_keeps_state(u, upd, h, reply, buttons, dup) ==
    Answer(u, upd, h, fsm[u].state, fsm[u].data, transactions, 0, reply, buttons, dup)

\* state.clear() with a reply.
Cleared(u, upd, h, reply, buttons, dup) ==
    Answer(u, upd, h, None, NoData, transactions, 0, reply, buttons, dup)

\* The transaction is created and committed, the session cleared.
Saved(u, upd, h, row) ==
    /\ Len(transactions) < MaxTx
    /\ Answer(u, upd, h, None, NoData, Append(transactions, row), row.id, "receipt.saved", {}, None)

\* The row a handler builds from the session data.
RowFromData(u, data, category_id) ==
    create_transaction(u, data.amount, data.currency, category_id, data.merchant,
                       data.transaction_date, 0, 0)

QuickCategoryButtons == {"quick_category:food", "all_categories", "edit_transaction"}

\* ocr_result.get('currency', user.primary_currency)
OcrCurrency(ocr) == IF "currency" \in DOMAIN ocr THEN ocr.currency ELSE PrimaryCurrency

\* The session data a receipt handler stores from the OCR result.
ReceiptData(ocr, transaction_date) ==
    [amount |-> ocr.amount, currency |-> OcrCurrency(ocr), merchant |-> ocr.merchant,
     transaction_date |-> transaction_date, category_id |-> None, description |-> None]

\* photo.process_receipt_photo
process_receipt_photo(u, upd) ==
  \E enable_currency_conversion \in BOOLEAN :
    LET h == "photo.process_receipt_photo"
        ocr == upd.ocr
        transaction_date == RecentOrNow(ocr.date)
        data == ReceiptData(ocr, transaction_date)
        category_key == category_mapping(ocr.category)
    IN IF fsm[u].state # None /\ ContainsReceipt(fsm[u].state)
       THEN Nothing(u, upd, h, "wait")
       ELSE IF ocr.amount = 0
       THEN Cleared(u, upd, h, "receipt.error_amount", {"cancel"}, None)
       ELSE IF needs_amount_clarification(ocr)
       THEN Answer(u, upd, h, "ReceiptStates:clarifying_amount", data, transactions, 0,
                   "clarification.amount", {"clarify_amount:manual", "cancel"}, None)
       ELSE IF OcrCurrency(ocr) # PrimaryCurrency /\ ~enable_currency_conversion
       THEN Answer(u, upd, h, "ReceiptStates:selecting_currency", data, transactions, 0,
                   "currency.save_question", {"currency:tenge", "currency:original", "currency:both"}, None)
       ELSE IF category_key = "other"
       THEN Answer(u, upd, h, "ReceiptStates:asking_description", data, transactions, 0,
                   "receipt.ask_description", {"cancel"}, None)
       ELSE IF ocr.confidence < 70
       THEN Answer(u, upd, h, "ReceiptStates:choosing_category", data, transactions, 0,
                   "expense.choose_category", QuickCategoryButtons, None)
       ELSE AfterSearch(u, upd, h, data, category_key, 2,
                        [state |-> "ReceiptStates:confirming_duplicate",
                         data |-> [data EXCEPT !.category_id = category_key],
                         reply |-> "duplicate.confirm_save", buttons |-> YesNoPhoto],
                        [binds |-> Binds(PhotoCallKeywords), state |-> None, data |-> NoData,
                         reply |-> "receipt.error_quality", buttons |-> {"cancel"}])

\* photo.process_description_request
process_description_request(u, upd) ==
    LET h == "photo.process_description_request"
        data == [fsm[u].data EXCEPT !.description = Text(upd)]
        category_key == caption_category(upd)
    IN IF upd.content # "text"
       THEN Nothing(u, upd, h, None)
       ELSE IF category_key = None
       THEN Answer(u, upd, h, "ReceiptStates:choosing_category", data, transactions, 0,
                   "expense.choose_category", QuickCategoryButtons, None)
       ELSE AfterSearch(u, upd, h, data, category_key, 2,
                        [state |-> None, data |-> NoData, reply |-> "duplicate.skip_info", buttons |-> {}],
                        [binds |-> Binds(PhotoCallKeywords \cup {"description"}),
                         state |-> fsm[u].state, data |-> data, reply |-> None, buttons |-> {}])

\* photo.process_manual_amount_input: message.text.strip() raises for a message
\* without text; a text that is no amount is answered; an amount with a
\* category keyword is saved at once (the call passes company_id); an amount
\* alone leads to the category buttons.
process_manual_amount_input(u, upd) ==
    LET h == "photo.process_manual_amount_input"
        parsed == parse_expense(upd)
        data == [fsm[u].data EXCEPT !.amount = parsed.amount, !.currency = parsed.currency,
                                    !.description = parsed.description]
        category == caption_category(upd)
    IN IF upd.content # "text"
       THEN Nothing(u, upd, h, None)
       ELSE IF parsed.amount = 0
       THEN Nothing(u, upd, h, "clarification.invalid_amount_format")
       ELSE IF category \notin {None, "other"}
       THEN IF Binds(PhotoCallKeywords \cup {"description"})
            THEN Saved(u, upd, h, RowFromData(u, data, category))
            ELSE Answer(u, upd, h, fsm[u].state, data, transactions, 0, None, {}, None)
       ELSE Answer(u, upd, h, "ReceiptStates:choosing_category", data, transactions, 0,
                   "expense.choose_category", QuickCategoryButtons, None)

\* photo.confirm_duplicate_photo
confirm_duplicate_photo(u, upd) ==
    IF Binds(PhotoCallKeywords)
    THEN Saved(u, upd, "photo.confirm_duplicate_photo", RowFromData(u, fsm[u].data, fsm[u].data.category_id))
    ELSE Nothing(u, upd, "photo.confirm_duplicate_photo", None)

\* photo.process_currency_selection: whatever the option, the category
\* buttons are shown next.
process_currency_selection(u, upd) ==
    Answer(u, upd, "photo.process_currency_selection", "ReceiptStates:selecting_category", fsm[u].data,
           transactions, 0, "receipt.choose_category", QuickCategoryButtons, None)

\* photo.process_receipt_category: create_transaction (the call passes
\* company_id), commit, the saved text, state.clear().
process_receipt_category(u, upd) ==
    IF Binds(PhotoCallKeywords)
    THEN Saved(u, upd, "photo.process_receipt_category", RowFromData(u, fsm[u].data, upd.arg))
    ELSE Nothing(u, upd, "photo.process_receipt_category", None)

\* photo.process_amount_clarification: "manual" asks for the amount as text;
\* a suggested amount is stored and the category buttons are shown.
process_amount_clarification(u, upd) ==
    IF upd.arg = "manual"
    THEN Answer(u, upd, "photo.process_amount_clarification", "ReceiptStates:editing_amount", fsm[u].data,
                transactions, 0, "clarification.enter_amount_hint", {"cancel"}, None)
    ELSE Answer(u, upd, "photo.process_amount_clarification", "ReceiptStates:choosing_category",
                [fsm[u].data EXCEPT !.amount = 50000], transactions, 0,
                "expense.choose_category", QuickCategoryButtons, None)

\* photo.cancel_duplicate_photo
cancel_duplicate_photo(u, upd) ==
    Cleared(u, upd, "photo.cancel_duplicate_photo", "duplicate.cancelled", {}, None)

\* document.process_receipt_document
process_receipt_document(u, upd) ==
    LET h == "document.process_receipt_document"
        ocr == upd.ocr
        data == ReceiptData(ocr, ocr.date)
        category_key == category_mapping(ocr.category)
    IN IF fsm[u].state # None
       THEN Nothing(u, upd, h, "wait")
       ELSE IF ~upd.mime_ok
       THEN Answer(u, upd, h, "ReceiptStates:processing_image", fsm[u].data, transactions, 0,
                   "document.unsupported_format", {"cancel"}, None)
       ELSE IF ocr.amount = 0
       THEN Cleared(u, upd, h, "receipt.error_amount", {"cancel"}, None)
       ELSE AfterSearch(u, upd, h, data, category_key, 1,
                        [state |-> "ReceiptStates:confirming_duplicate",
                         data |-> [data EXCEPT !.category_id = category_key],
                         reply |-> "duplicate.confirm_save", buttons |-> YesNoDocument],
                        [binds |-> Binds(DocumentCallKeywords), state |-> None, data |-> NoData,
                         reply |-> "receipt.error_quality", buttons |-> {"cancel"}])

\* document.confirm_duplicate_document
confirm_duplicate_document(u, upd) ==
    IF Binds(DocumentCallKeywords)
    THEN Saved(u, upd, "document.confirm_duplicate_document", RowFromData(u, fsm[u].data, fsm[u].data.category_id))
    ELSE Nothing(u, upd, "document.confirm_duplicate_document", None)

\* document.cancel_duplicate_document
cancel_duplicate_document(u, upd) ==
    Cleared(u, upd, "document.cancel_duplicate_document", "duplicate.cancelled", {}, None)

\* keyboard.handle_add_expense
handle_add_expense(u, upd) ==
    Answer(u, upd, "keyboard.handle_add_expense", None, NoData, transactions, 0,
           "manual_input.add_expense", {"expense:photo", "expense:manual"}, None)

\* expense_callbacks.handle_expense_manual
handle_expense_manual(u, upd) ==
    Answer(u, upd, "expense_callbacks.handle_expense_manual", "ExpenseStates:waiting_for_amount",
           fsm[u].data, transactions, 0, "receipt.enter_amount", {}, None)

\* The button labels text_expense.process_text_expense skips.
IsKeyboardButton(upd) == upd.key \in {":bar_chart:", ":memo:", ":gear:", ":briefcase:", ":credit_card:", ":outbox_tray:", ":question:"}

\* text_expense.process_text_expense
process_text_expense(u, upd) ==
    LET h == "text_expense.process_text_expense"
        parsed == extract_amount(upd)
        category == detect_category(upd)
    IN IF IsKeyboardButton(upd) \/ fsm[u].state # None \/ parsed.amount = 0
          \/ ~TextCategoryFound(category) \/ ~Binds(TextCallKeywords)
       THEN Nothing(u, upd, h, None)
       ELSE /\ Len(transactions) < MaxTx
            /\ Answer(u, upd, h, fsm[u].state, fsm[u].data,
                      Append(transactions,
                             create_transaction(u, parsed.amount, parsed.currency, category,
                                                NoText, now, parsed.amount, 10000)),
                      Len(transactions) + 1, "saved", {}, None)

\* expense.process_expense_input
process_expense_input(u, upd) ==
    LET h == "expense.process_expense_input"
        parsed == parse_expense(upd)
    IN IF parsed.amount = 0
       THEN Nothing(u, upd, h, "manual_input.error_format")
       ELSE Answer(u, upd, h, "ExpenseStates:waiting_for_category",
                   [amount |-> parsed.amount, currency |-> parsed.currency, merchant |-> NoText,
                    transaction_date |-> now, category_id |-> None,
                    description |-> parsed.description],
                   transactions, 0, "receipt.choose_category", QuickCategoryButtons, None)

\* expense.process_quick_category and expense.process_category_selection
process_quick_category(u, upd, h) ==
    IF Binds(TextCallKeywords \ {"merchant"})
    THEN Saved(u, upd, h, RowFromData(u, fsm[u].data, upd.arg))
    ELSE Nothing(u, upd, h, None)

\* expense.cancel_expense and categories.cancel_category_action
cancel_expense(u, upd, h) ==
    Cleared(u, upd, h, "buttons.cancel", {}, None)

\* CompanyService.get_user_companies
get_user_companies(user_id) ==
    {m.company_id : m \in {x \in company_members : x.user_id = user_id /\ x.is_active}}

\* What a company handler leaves behind.
CompanyAnswer(u, upd, h, active_company_id, reply) ==
    /\ users' = [users EXCEPT ![u].active_company_id = active_company_id]
    /\ lastUpdate' = [update |-> upd, handler |-> h, user |-> u, state |-> fsm[u].state,
                      company |-> users[u].active_company_id, saved |-> 0,
                      reply |-> reply, buttons |-> {}, dup |-> None, raised |-> None]
    /\ lastSearch' = NoSearch
    /\ UNCHANGED <<fsm, transactions>>

\* company.activate_company
activate_company(u, upd) ==
    IF upd.arg \notin get_user_companies(u)
    THEN CompanyAnswer(u, upd, "company.activate_company", users[u].active_company_id, "company.not_member")
    ELSE CompanyAnswer(u, upd, "company.activate_company", upd.arg, "company.mode_switched")

\* company.switch_company_mode
switch_company_mode(u, upd) ==
    IF users[u].active_company_id # None
    THEN CompanyAnswer(u, upd, "company.switch_company_mode", None, "company.personal_mode")
    ELSE CompanyAnswer(u, upd, "company.switch_company_mode", None,
                       IF get_user_companies(u) = {} THEN "company.no_companies" ELSE "company.list")

\* An update no handler accepts is dropped.
Unhandled(u, upd) == Nothing(u, upd, "UNHANDLED", None)

\* A message arrives and the router gives it to its handler.
OnMessage(u, upd) ==
    /\ LET h == Dispatch(MessageHandlers, upd, fsm[u].state)
       IN CASE h = "photo.process_receipt_photo" -> process_receipt_photo(u, upd)
            [] h = "photo.process_manual_amount_input" -> process_manual_amount_input(u, upd)
            [] h = "photo.process_description_request" -> process_description_request(u, upd)
            [] h = "document.process_receipt_document" -> process_receipt_document(u, upd)
            [] h = "keyboard.handle_add_expense" -> handle_add_expense(u, upd)
            [] h = "text_expense.process_text_expense" -> process_text_expense(u, upd)
            [] h = "expense.process_expense_input" -> process_expense_input(u, upd)
            [] h = "UNHANDLED" -> Unhandled(u, upd)
    /\ UNCHANGED <<throttleVars, companyVars, svcVars>>

\* A button is pressed and the router gives the callback to its handler.
OnCallback(u, upd) ==
    /\ LET h == Dispatch(CallbackHandlers, upd, fsm[u].state)
       IN CASE h = "photo.confirm_duplicate_photo" -> confirm_duplicate_photo(u, upd)
            [] h = "photo.process_currency_selection" -> process_currency_selection(u, upd)
            [] h = "photo.process_receipt_category" -> process_receipt_category(u, upd)
            [] h = "photo.process_amount_clarification" -> process_amount_clarification(u, upd)
            [] h = "photo.cancel_duplicate_photo" -> cancel_duplicate_photo(u, upd)
            [] h = "document.confirm_duplicate_document" -> confirm_duplicate_document(u, upd)
            [] h = "document.cancel_duplicate_document" -> cancel_duplicate_document(u, upd)
            [] h = "company.activate_company" -> activate_company(u, upd)
            [] h = "company.switch_company_mode" -> switch_company_mode(u, upd)
            [] h = "expense_callbacks.handle_expense_manual" -> handle_expense_manual(u, upd)
            [] h \in {"expense.process_quick_category", "expense.process_category_selection"} ->
                  process_quick_category(u, upd, h)
            [] h \in {"expense.cancel_expense", "categories.cancel_category_action"} ->
                  cancel_expense(u, upd, h)
            [] h = "UNHANDLED" -> Unhandled(u, upd)
    /\ UNCHANGED <<throttleVars, companyVars, svcVars>>

\* The updates the model sends.
OcrResults ==
    {NoOcr}
    \cup [amount : {50000}, merchant : {NoText}, date : {3}, category : {"food", "other"},
          confidence : {90}]
    \cup [amount : {50000}, merchant : {NoText}, date : {3}, category : {"food"},
          confidence : {40, 60}]
TextMessages ==
    {[kind |-> "message", content |-> "text", key |-> t[1], arg |-> t[2], ocr |-> NoOcr,
      mime_ok |-> TRUE] : t \in {<<"", "500 obed">>, <<"", "obed">>, <<":heavy_plus_sign:", "Dobavit rashod">>}}
PhotoMessages ==
    {[kind |-> "message", content |-> "photo", key |-> "", arg |-> "", ocr |-> o,
      mime_ok |-> TRUE] : o \in OcrResults}
DocumentMessages ==
    {[kind |-> "message", content |-> "document", key |-> "", arg |-> "", ocr |-> o,
      mime_ok |-> TRUE] : o \in {r \in OcrResults : r.confidence \in {0, 90}}}
    \cup {[kind |-> "message", content |-> "document", key |-> "", arg |-> "", ocr |-> NoOcr,
           mime_ok |-> FALSE]}
Messages == TextMessages \cup PhotoMessages \cup DocumentMessages
Callbacks ==
    {[kind |-> "callback_query", content |-> "callback", key |-> t[1], arg |-> t[2],
      ocr |-> NoOcr, mime_ok |-> TRUE] :
        t \in {<<"expense", "manual">>, <<"quick_category", "food">>,
               <<"select_category", "food">>, <<"cancel", "">>,
               <<"confirm_duplicate_photo", "">>, <<"cancel_duplicate_photo", "">>,
               <<"confirm_duplicate_document", "">>, <<"cancel_duplicate_document", "">>,
               <<"company_activate", "c1">>, <<"company_activate", "c2">>,
               <<"company_switch", "">>}}

\* Time passes between updates.
BotTick(d) ==
    /\ now + d <= MaxTime
    /\ now' = now + d
    /\ UNCHANGED <<user_cache, accepted, lastReq, rejected, companyVars, transactions, dupVars, botVars, svcVars>>

\* Registered users in private chats, no session open, company c1 with its
\* owner (user 1) as the only member.
InitBot ==
    /\ now = 0
    /\ InitThrottleIdle
    /\ InitSvcIdle
    /\ companies = [c \in CompanyIds |-> [owner_id |-> 1, auto_approve_limit |-> 0]]
    /\ approval_rules = <<>>
    /\ company_members = {[id |-> 1, company_id |-> "c1", user_id |-> 1, role |-> "owner",
                           can_approve |-> TRUE, is_active |-> TRUE]}
    /\ transactions = <<>>
    /\ company_transactions = <<>>
    /\ lastCall = NoCall
    /\ lastSearch = NoSearch
    /\ fsm = [u \in BotUsers |-> [state |-> None, data |-> NoData]]
    /\ users = [u \in BotUsers |-> [active_company_id |-> None]]
    /\ lastUpdate = NoHandled

NextBot ==
    \/ \E u \in BotUsers, upd \in Messages : OnMessage(u, upd)
    \/ \E u \in BotUsers, upd \in Callbacks : OnCallback(u, upd)
    \/ \E d \in TickSteps : BotTick(d)

SpecBot == InitBot /\ [][NextBot]_vars

\* The approval envelopes of a transaction.
Envelopes(transaction_id) ==
    {i \in DOMAIN company_transactions :
        company_transactions[i].transaction_id = transaction_id}

\* C6: a transaction created while the user's active context is a company
\* carries that company's reference and has exactly one approval envelope,
\* created together with it; one created in personal context has neither.
C6_CompanyContextEnvelope ==
    lastUpdate.saved # 0 =>
        LET tx == transactions[lastUpdate.saved]
        IN IF lastUpdate.company # None
           THEN tx.company_id = lastUpdate.company /\ Cardinality(Envelopes(tx.id)) = 1
           ELSE tx.company_id = None /\ Envelopes(tx.id) = {}

\* The last update was a free-text message, not a command, that parses as an
\* expense, sent while the session was awaiting the amount.
ExpenseTextWhileAwaitingAmount ==
    /\ lastUpdate.state = "ExpenseStates:waiting_for_amount"
    /\ lastUpdate.update.content = "text"
    /\ ~StartsWithSlash(lastUpdate.update.key)
    /\ parse_expense(lastUpdate.update).amount # 0

\* C7: a free-text message that parses as an expense, sent while the session
\* awaits the amount, is taken by the manual-entry step, which stores the
\* parsed amount, currency and description and moves the session to awaiting
\* the category.
C7_ManualEntryStep ==
    ExpenseTextWhileAwaitingAmount =>
        LET parsed == parse_expense(lastUpdate.update)
            session == fsm[lastUpdate.user]
        IN /\ lastUpdate.handler = "expense.process_expense_input"
           /\ session.state = "ExpenseStates:waiting_for_category"
           /\ session.data.amount = parsed.amount
           /\ session.data.currency = parsed.currency
           /\ session.data.description = parsed.description

\* A free-text matcher: a message handler for any text, with no state filter.
IsFreeText(h) == h.op = "text_not_command" /\ h.states = {}

\* The handlers registered after position i that accept the update as well and
\* are state-scoped or match the text more specifically.
Shadowed(i, upd, st) ==
    {j \in DOMAIN MessageHandlers :
        /\ j > i
        /\ Matches(MessageHandlers[j], upd, st)
        /\ ~IsFreeText(MessageHandlers[j])}

\* C8: an update goes to the first handler in registration order that accepts
\* it, and a free-text matcher that takes a message shadows no state-scoped or
\* more specific handler registered after it.
C8_FreeTextShadowsNothing ==
    lastUpdate.update.kind = "message" =>
        LET i == DispatchIndex(MessageHandlers, lastUpdate.update, lastUpdate.state)
        IN /\ lastUpdate.handler = Dispatch(MessageHandlers, lastUpdate.update, lastUpdate.state)
           /\ (i # 0 /\ IsFreeText(MessageHandlers[i])) =>
                 Shadowed(i, lastUpdate.update, lastUpdate.state) = {}

\* C9: when the duplicate check finds an exact match for a receipt, the user
\* is shown the warning with yes/no buttons and nothing is saved by that
\* update; declining saves nothing.
C9_ExactDuplicateAsksYesNo ==
    /\ lastUpdate.dup = "exact" =>
          /\ lastUpdate.buttons \in {YesNoPhoto, YesNoDocument}
          /\ lastUpdate.saved = 0
          /\ fsm[lastUpdate.user].state = "ReceiptStates:confirming_duplicate"
    /\ lastUpdate.handler \in {"photo.cancel_duplicate_photo", "document.cancel_duplicate_document"} =>
          lastUpdate.saved = 0

(***************************************************************************)
(* Exchange rates: CurrencyService over the redis cache, the table         *)
(* exchange_rates and the National Bank feed (the two keyed endpoints are  *)
(* enabled only when an API key is configured; the default has none).      *)
(***************************************************************************)
cache_ttl == 1800
RecentSeconds == 86400
RateScale == 10000

Currencies == {"USD", "RUB", "KZT"}
One == Rat(1, 1)

RECURSIVE GCD(_, _)
GCD(a, b) == IF b = 0 THEN a ELSE GCD(b, a % b)

\* Fractions are kept in lowest terms, so equal values are equal records.
Reduce(r) == Rat(r.num \div GCD(r.num, r.den), r.den \div GCD(r.num, r.den))
Mul(a, b) ==
    LET g1 == GCD(a.num, b.den)
        g2 == GCD(b.num, a.den)
    IN  Reduce(Rat((a.num \div g1) * (b.num \div g2), (a.den \div g2) * (b.den \div g1)))
Inv(a) == Rat(a.den, a.num)

\* Rounding of a non-negative fraction n/d to the nearest integer, half up.
Round(n, d) == (2 * n + d) \div (2 * d)

\* A DECIMAL(p, s) column keeps s decimal places: the value stored for r, in
\* units of 1/scale.
DECIMAL(r, scale) == Round(r.num * scale, r.den)

\* amount (hundredths) times a stored rate (1/10000), rounded to two places.
\* The whole part of the rate is multiplied apart to keep the products small.
TimesRate(amount, rate) == amount * (rate \div RateScale) + Round(amount * (rate % RateScale), RateScale)

\* redis.from_url(settings.redis_url) is given no decode_responses, so GET
\* answers the stored text as bytes.
redis_get(key) ==
    LET live == {e \in redis : e.key = key /\ now < e.expires}
    IN  IF live = {} THEN NoBytes
        ELSE [type |-> "bytes", text |-> (CHOOSE e \in live : TRUE).value]

\* redis SET key str(rate) EX cache_ttl.
redis_set(key, rate) ==
    {e \in redis : e.key # key} \cup {[key |-> key, value |-> rate, expires |-> now + cache_ttl]}

\* decimal.Decimal(value): text converts, bytes raise TypeError.
Decimal(value) ==
    IF value.type = "bytes" THEN [raised |-> "TypeError", value |-> NoRate]
    ELSE [raised |-> None, value |-> value.text]

\* The rows of a pair that are active, as positions in the table.
ActiveRows(from_currency, to_currency) ==
    {i \in DOMAIN exchange_rates :
        /\ exchange_rates[i].from_currency = from_currency
        /\ exchange_rates[i].to_currency = to_currency
        /\ exchange_rates[i].is_active}

\* ORDER BY fetched_at DESC LIMIT 1 (the later insert among equal stamps).
LatestRate(rows) ==
    IF rows = {} THEN NoRate
    ELSE LET i == CHOOSE i \in rows : \A j \in rows :
                      \/ exchange_rates[j].fetched_at < exchange_rates[i].fetched_at
                      \/ exchange_rates[j].fetched_at = exchange_rates[i].fetched_at /\ j <= i
         IN  Reduce(Rat(exchange_rates[i].rate, RateScale))

_get_rate_from_db(from_currency, to_currency) ==
    LatestRate({i \in ActiveRows(from_currency, to_currency) :
                    exchange_rates[i].fetched_at >= now - RecentSeconds})

_get_last_known_rate(from_currency, to_currency) ==
    LatestRate(ActiveRows(from_currency, to_currency))

\* The feed gives the tenge for one unit of each currency it lists; a failed
\* request or an empty feed gives no rates.
_fetch_from_nbkz ==
    LET value(code) == (CHOOSE item \in api : item.code = code).rate_value
        codes == {item.code : item \in api}
    IN  [k \in {<<c, "KZT">> : c \in codes} \cup {<<"KZT", c>> : c \in codes} |->
            IF k[2] = "KZT" THEN Rat(value(k[1]), 1) ELSE Inv(Rat(value(k[2]), 1))]

\* dict.update: the pairs of more replace those of table.
dict_update(table, more) ==
    [k \in DOMAIN table \cup DOMAIN more |-> IF k \in DOMAIN more THEN more[k] ELSE table[k]]

\* CurrencyService._fetch_rates_from_api over the answers of the three APIs
\* (an empty table for a failed request): the table it collects and the APIs
\* it asked.  An API without key is not enabled.
all_rates(nbkz_rates, exchangerate_enabled, exchange_rates_answer, fixer_enabled, fixer_rates) ==
    LET after_nbkz == IF DOMAIN nbkz_rates # {} THEN dict_update(<<>>, nbkz_rates) ELSE <<>>
        after_exchangerate == IF exchangerate_enabled /\ DOMAIN exchange_rates_answer # {}
                              THEN dict_update(after_nbkz, exchange_rates_answer)
                              ELSE after_nbkz
        ask_fixer == fixer_enabled /\ DOMAIN after_exchangerate = {}
    IN  [rates |-> IF ask_fixer /\ DOMAIN fixer_rates # {}
                   THEN dict_update(after_exchangerate, fixer_rates)
                   ELSE after_exchangerate,
         asked |-> {"nbkz"} \cup (IF exchangerate_enabled THEN {"exchangerate"} ELSE {})
                           \cup (IF ask_fixer THEN {"fixer"} ELSE {})]

\* With the settings' defaults (no API keys) only the feed is enabled.
_fetch_rates_from_api == all_rates(_fetch_from_nbkz, FALSE, <<>>, FALSE, <<>>).rates

Bases == <<"USD", "EUR", "KZT">>

RECURSIVE CrossRate(_, _, _, _)
CrossRate(rates, from_currency, to_currency, i) ==
    IF i > Len(Bases) THEN NoRate
    ELSE LET base == Bases[i]
         IN  IF <<from_currency, base>> \in DOMAIN rates /\ <<base, to_currency>> \in DOMAIN rates
             THEN Mul(rates[<<from_currency, base>>], rates[<<base, to_currency>>])
             ELSE IF <<base, from_currency>> \in DOMAIN rates /\ <<to_currency, base>> \in DOMAIN rates
             THEN Inv(Mul(rates[<<base, from_currency>>], rates[<<to_currency, base>>]))
             ELSE CrossRate(rates, from_currency, to_currency, i + 1)

_calculate_rate(rates, from_currency, to_currency) ==
    IF <<from_currency, to_currency>> \in DOMAIN rates THEN rates[<<from_currency, to_currency>>]
    ELSE IF <<to_currency, from_currency>> \in DOMAIN rates THEN Inv(rates[<<to_currency, from_currency>>])
    ELSE CrossRate(rates, from_currency, to_currency, 1)

\* ExchangeRate(...) added and flushed; fetched_at is the server's now().
_save_rate_to_db(from_currency, to_currency, rate, source) ==
    Append(exchange_rates,
           [from_currency |-> from_currency, to_currency |-> to_currency,
            rate |-> DECIMAL(rate, RateScale), fetched_at |-> now,
            is_active |-> TRUE, source |-> source])

\* What each source holds for a pair at the moment of a request.
Offered(from_currency, to_currency) ==
    [cached |-> redis_get(<<from_currency, to_currency>>),
     recent |-> _get_rate_from_db(from_currency, to_currency),
     fetched |-> IF DOMAIN _fetch_rates_from_api = {} THEN NoRate
                 ELSE _calculate_rate(_fetch_rates_from_api, from_currency, to_currency),
     last_known |-> _get_last_known_rate(from_currency, to_currency)]

RateAnswer(rate, source, raised, consulted, cache, table) ==
    [rate |-> rate, source |-> source, raised |-> raised, consulted |-> consulted,
     redis |-> cache, exchange_rates |-> table]

\* Mutant: no early return for equal currencies.
get_exchange_rate_no_shortcut(from_currency, to_currency) ==
    LET key == <<from_currency, to_currency>>
        o == Offered(from_currency, to_currency)
    IN  IF o.cached # NoBytes
        THEN RateAnswer(Decimal(o.cached).value, "cache", Decimal(o.cached).raised,
                        {"cache"}, redis, exchange_rates)
        ELSE IF o.recent # NoRate
        THEN RateAnswer(o.recent, "db", None, {"cache", "db"},
                        redis_set(key, o.recent), exchange_rates)
        ELSE IF o.fetched # NoRate
        THEN RateAnswer(o.fetched, "api", None, {"cache", "db", "api"},
                        redis_set(key, o.fetched),
                        _save_rate_to_db(from_currency, to_currency, o.fetched, "api"))
        ELSE IF o.last_known # NoRate
        THEN RateAnswer(o.last_known, "last_known", None, {"cache", "db", "api"},
                        redis, exchange_rates)
        ELSE RateAnswer(NoRate, None, None, {"cache", "db", "api"}, redis, exchange_rates)

\* CurrencyService.get_exchange_rate with a session, as every handler calls it.
get_exchange_rate(from_currency, to_currency) ==
    LET key == <<from_currency, to_currency>>
        o == Offered(from_currency, to_currency)
    IN  IF from_currency = to_currency
        THEN RateAnswer(One, "same", None, {}, redis, exchange_rates)
        ELSE IF o.cached # NoBytes
        THEN RateAnswer(Decimal(o.cached).value, "cache", Decimal(o.cached).raised,
                        {"cache"}, redis, exchange_rates)
        ELSE IF o.recent # NoRate
        THEN RateAnswer(o.recent, "db", None, {"cache", "db"},
                        redis_set(key, o.recent), exchange_rates)
        ELSE IF o.fetched # NoRate
        THEN RateAnswer(o.fetched, "api", None, {"cache", "db", "api"},
                        redis_set(key, o.fetched),
                        _save_rate_to_db(from_currency, to_currency, o.fetched, "api"))
        ELSE IF o.last_known # NoRate
        THEN RateAnswer(o.last_known, "last_known", None, {"cache", "db", "api"},
                        redis, exchange_rates)
        ELSE RateAnswer(NoRate, None, None, {"cache", "db", "api"}, redis, exchange_rates)

\* CurrencyService.convert_amount: (converted, rate), or (None, None) when no
\* source has a rate. The product is not rounded.
convert_amount(amount, from_currency, to_currency) ==
    IF from_currency = to_currency
    THEN [converted |-> Rat(amount, 1), answer |-> RateAnswer(One, "same", None, {}, redis, exchange_rates)]
    ELSE LET a == get_exchange_rate(from_currency, to_currency)
         IN  [converted |-> IF a.rate # NoRate THEN Mul(Rat(amount, 1), a.rate) ELSE NoRate,
              answer |-> a]

\* The history entry of a request.
RateCall(op, amount, from_currency, to_currency, a, converted) ==
    LET o == Offered(from_currency, to_currency)
    IN  [op |-> op, from_currency |-> from_currency, to_currency |-> to_currency,
         amount |-> amount, cached |-> o.cached, recent |-> o.recent,
         fetched |-> o.fetched, last_known |-> o.last_known,
         consulted |-> a.consulted, source |-> a.source, raised |-> a.raised,
         rate |-> a.rate, converted |-> converted,
         wrote |-> a.redis # redis \/ a.exchange_rates # exchange_rates]

\* A caller asks the service for a rate, or for a conversion (the /convert
\* command, an expense in another currency).
GetExchangeRate(from_currency, to_currency) ==
    LET a == get_exchange_rate(from_currency, to_currency)
    IN  /\ redis' = a.redis
        /\ exchange_rates' = IF a.raised = None THEN a.exchange_rates ELSE exchange_rates
        /\ lastRate' = RateCall("get_exchange_rate", 0, from_currency, to_currency, a, NoRate)
        /\ UNCHANGED <<throttleVars, companyVars, transactions, dupVars, botVars, api, catVars, sessVars, sysVars>>

ConvertAmount(amount, from_currency, to_currency) ==
    LET c == convert_amount(amount, from_currency, to_currency)
    IN  /\ redis' = c.answer.redis
        /\ exchange_rates' = IF c.answer.raised = None THEN c.answer.exchange_rates ELSE exchange_rates
        /\ lastRate' = RateCall("convert_amount", amount, from_currency, to_currency, c.answer, c.converted)
        /\ UNCHANGED <<throttleVars, companyVars, transactions, dupVars, botVars, api, catVars, sessVars, sysVars>>

\* What TextExpenseParser.extract_amount finds in an expense text whose
\* category keyword is known: "1000 rub obed", "1000 usd obed", "500 obed".
RateAmounts == {100000}
RatePairs == {<<"USD", "KZT">>, <<"RUB", "USD">>, <<"KZT", "RUB">>, <<"USD", "USD">>}
TextExpenses == {[amount |-> 100000, currency |-> "RUB"],
                 [amount |-> 100000, currency |-> "USD"], [amount |-> 50000, currency |-> "KZT"]}
MaxRateTx == 2

\* process_text_expense from the parsed amount on: the currency the text names
\* (the user's own when it names none), the conversion when the two differ,
\* the row, the commit and the confirmation. An exception leaves the handler
\* through the session scope, which rolls back what is not committed; the
\* confirmation formats amount_primary with `:.2f', which raises TypeError
\* for the None of a conversion that found no rate. The amount columns keep
\* two decimal places (amounts are counted in hundredths) and the rate
\* column four.
process_text_expense_convert(u, parsed) ==
    LET user_currency == users[u].primary_currency
        detected_currency == IF parsed.currency = "KZT" /\ user_currency # "KZT"
                             THEN user_currency ELSE parsed.currency
        c == convert_amount(parsed.amount, detected_currency, user_currency)
        differs == detected_currency # user_currency
        row == create_transaction(u, parsed.amount, detected_currency, "food", NoText, now,
                                  IF differs THEN DECIMAL(c.converted, 1) ELSE parsed.amount,
                                  IF differs THEN DECIMAL(c.answer.rate, RateScale) ELSE RateScale)
        raised == IF ~differs THEN None
                  ELSE IF c.answer.raised # None THEN c.answer.raised
                  ELSE IF c.converted = NoRate THEN "TypeError"
                  ELSE None
    IN  /\ Len(transactions) < MaxRateTx
        /\ lastUpdate' = [NoHandled EXCEPT !.handler = "text_expense.process_text_expense",
                                           !.user = u,
                                           !.saved = IF differs /\ c.answer.raised # None
                                                     THEN 0 ELSE row.id,
                                           !.reply = IF raised = None THEN "saved" ELSE None,
                                           !.raised = raised]
        /\ redis' = IF differs THEN c.answer.redis ELSE redis
        /\ lastRate' = IF differs
                       THEN RateCall("convert_amount", parsed.amount, detected_currency, user_currency,
                                     c.answer, c.converted)
                       ELSE NoRateCall
        /\ IF differs /\ c.answer.raised # None
           THEN UNCHANGED <<exchange_rates, transactions>>
           ELSE /\ exchange_rates' = IF differs THEN c.answer.exchange_rates ELSE exchange_rates
                /\ transactions' = Append(transactions, row)
        /\ UNCHANGED <<throttleVars, companyVars, dupVars, fsm, users, api, catVars, sessVars, sysVars>>

\* The feed's answers: down, or the day's rates.
Feeds == {{}, {[code |-> "USD", rate_value |-> 450], [code |-> "RUB", rate_value |-> 7]}}

SetFeed(feed) ==
    /\ api # feed
    /\ api' = feed
    /\ UNCHANGED <<throttleVars, companyVars, transactions, dupVars, botVars, redis, exchange_rates, lastRate, catVars, sessVars, sysVars>>

RateTick(d) ==
    /\ now + d <= MaxTime
    /\ now' = now + d
    /\ UNCHANGED <<user_cache, accepted, lastReq, rejected, companyVars, transactions, dupVars, botVars, svcVars>>

\* Rows left by earlier days: one that stops being recent during the run and
\* an older one, for the pair USD -> KZT.
StoredRates ==
    {<<>>,
     <<[from_currency |-> "USD", to_currency |-> "KZT", rate |-> 4400000, fetched_at |-> 0 - 200000,
        is_active |-> TRUE, source |-> "api"],
       [from_currency |-> "USD", to_currency |-> "KZT", rate |-> 4455000, fetched_at |-> 30 - RecentSeconds,
        is_active |-> TRUE, source |-> "api"]>>}

RateUsers == {1, 2}

InitCurrency ==
    /\ now = 0
    /\ InitThrottleIdle
    /\ InitCompanyIdle
    /\ lastSearch = NoSearch
    /\ fsm = <<>>
    /\ lastUpdate = NoHandled
    /\ users = [u \in RateUsers |-> [active_company_id |-> None,
                                     primary_currency |-> IF u = 1 THEN "KZT" ELSE "USD"]]
    /\ redis = {}
    /\ exchange_rates \in StoredRates
    /\ api \in Feeds
    /\ lastRate = NoRateCall
    /\ InitCatIdle
    /\ InitSessIdle
    /\ InitSysIdle

NextCurrency ==
    \/ \E p \in RatePairs : GetExchangeRate(p[1], p[2])
    \/ \E amount \in RateAmounts, p \in RatePairs : ConvertAmount(amount, p[1], p[2])
    \/ \E feed \in Feeds : SetFeed(feed)
    \/ \E d \in TickSteps : RateTick(d)

SpecCurrency == InitCurrency /\ [][NextCurrency]_vars

\* Expenses typed in a currency, over the same rate sources.
NextTextExpense ==
    \/ \E u \in RateUsers, parsed \in TextExpenses : process_text_expense_convert(u, parsed)
    \/ \E feed \in Feeds : SetFeed(feed)
    \/ \E d \in TickSteps : RateTick(d)

SpecTextExpense == InitCurrency /\ [][NextTextExpense]_vars

\* C11: every transaction row, whatever channel created it, has
\* amount_primary equal to amount times exchange_rate rounded to two decimal
\* places.
C11_PrimaryIsAmountTimesRate ==
    \A i \in DOMAIN transactions :
        transactions[i].amount_primary = TimesRate(transactions[i].amount, transactions[i].exchange_rate)

\* C14: a rate request between two different currencies is answered from the
\* first source that has the pair, in the order cache, recent table row (24 h),
\* live feed, last stored row of any age; when no source has it the request
\* answers no rate, and it never raises.
C14_SourcePriority ==
    (lastRate.op # None /\ lastRate.from_currency # lastRate.to_currency) =>
        /\ lastRate.raised = None
        /\ lastRate.rate =
              IF lastRate.cached # NoBytes THEN lastRate.cached.text
              ELSE IF lastRate.recent # NoRate THEN lastRate.recent
              ELSE IF lastRate.fetched # NoRate THEN lastRate.fetched
              ELSE lastRate.last_known

\* C15: a request from a currency to itself answers the amount unchanged and
\* the rate 1.0000, reads neither the cache, the table nor the feed, and writes
\* to none of them.
C15_SameCurrencyIsIdentity ==
    (lastRate.op # None /\ lastRate.from_currency = lastRate.to_currency) =>
        /\ lastRate.rate = One
        /\ lastRate.raised = None
        /\ lastRate.consulted = {}
        /\ ~lastRate.wrote
        /\ lastRate.op = "convert_amount" => lastRate.converted = Rat(lastRate.amount, 1)

\* A same-currency conversion made while the feed is up and the table has rows.
C15_Witness ==
    /\ lastRate.op = "convert_amount"
    /\ lastRate.from_currency = "USD" /\ lastRate.to_currency = "USD"
    /\ lastRate.amount = 100000
    /\ lastRate.converted = Rat(100000, 1)
    /\ api # {}
    /\ exchange_rates # <<>>

(***************************************************************************)
(* Categories: CategoryService over the table categories, and the handlers *)
(* that list, create, delete and re-seed them. Names are transliterated.   *)
(***************************************************************************)
MaxHandlers == 2
MaxCustom == 1

CatUsers == {1}
CustomNames == {"Kofe"}

\* The nine seeded categories, in order_position order (name_ru).
default_categories ==
    <<"Eda i restorany", "Transport", "Pokupki i odezhda", "Dom i kommunalnye", "Zdorove",
      "Razvlecheniya", "Obrazovanie", "Pozhertvovaniya", "Prochee">>

\* get_default_category's map from key to name_ru.
default_names ==
    [food |-> "Eda i restorany", transport |-> "Transport", shopping |-> "Pokupki i odezhda",
     home |-> "Dom i kommunalnye", health |-> "Zdorove", entertainment |-> "Razvlecheniya",
     education |-> "Obrazovanie", donation |-> "Pozhertvovaniya", other |-> "Prochee"]

NoCategory == [id |-> 0, user_id |-> 0, name_ru |-> None, is_default |-> FALSE,
               is_active |-> FALSE, order_position |-> 0]

\* Category(id=str(uuid4()), ...): is_active defaults to True.
Category(table, user_id, name_ru, is_default, order_position) ==
    [id |-> FreshId(table), user_id |-> user_id, name_ru |-> name_ru, is_default |-> is_default,
     is_active |-> TRUE, order_position |-> order_position]

\* CategoryService.get_user_categories with active_only (the rows, unordered).
get_user_categories(table, user_id) ==
    {table[i] : i \in {j \in DOMAIN table : table[j].user_id = user_id /\ table[j].is_active}}

\* The default rows of a user under a name.
DefaultRows(table, user_id, name_ru) ==
    {i \in DOMAIN table : /\ table[i].user_id = user_id
                          /\ table[i].name_ru = name_ru
                          /\ table[i].is_default}

\* CategoryService.get_default_category: the first match, or None.
get_default_category(table, user_id, key) ==
    LET name_ru == IF key \in DOMAIN default_names THEN default_names[key] ELSE "Prochee"
        rows == DefaultRows(table, user_id, name_ru)
    IN  IF rows = {} THEN NoCategory
        ELSE table[CHOOSE i \in rows : \A j \in rows : i <= j]

\* The loop over default_categories from position i on: each is added, and
\* with `check' only when the user has no default row of that name.
RECURSIVE AddDefaults(_, _, _, _)
AddDefaults(table, user_id, i, check) ==
    IF i > Len(default_categories) THEN table
    ELSE LET name_ru == default_categories[i]
             existing == check /\ DefaultRows(table, user_id, name_ru) # {}
         IN  AddDefaults(IF existing THEN table
                         ELSE Append(table, Category(table, user_id, name_ru, TRUE, i)),
                         user_id, i + 1, check)

\* CategoryService.get_or_create_default_categories: the table it leaves.
get_or_create_default_categories(table, user_id) ==
    IF get_user_categories(table, user_id) = {}
    THEN AddDefaults(table, user_id, 1, FALSE)
    ELSE table

\* Mutant: no lookup before each insert.
create_default_categories_unchecked(table, user_id) ==
    AddDefaults(table, user_id, 1, FALSE)

\* CategoryService.create_default_categories: the table it leaves.
create_default_categories(table, user_id) ==
    AddDefaults(table, user_id, 1, TRUE)

\* CategoryService.create_category: the table it leaves.
create_category(table, user_id, name_ru) ==
    LET positions == {table[i].order_position : i \in {j \in DOMAIN table : table[j].user_id = user_id}}
        max_position == IF positions = {} THEN 0
                        ELSE CHOOSE m \in positions : \A x \in positions : x <= m
    IN  Append(table, Category(table, user_id, name_ru, FALSE, max_position + 1))

\* Mutant: default categories are not protected.
delete_category_any(table, category_id, user_id) ==
    LET found == {i \in DOMAIN table : table[i].id = category_id /\ table[i].user_id = user_id}
    IN  IF found = {}
        THEN [result |-> FALSE, table |-> table]
        ELSE [result |-> TRUE,
              table |-> [i \in DOMAIN table |->
                            IF i \in found THEN [table[i] EXCEPT !.is_active = FALSE] ELSE table[i]]]

\* CategoryService.delete_category: soft delete, refused for a default row.
delete_category(table, category_id, user_id) ==
    LET found == {i \in DOMAIN table : table[i].id = category_id /\ table[i].user_id = user_id}
    IN  IF found = {} \/ \E i \in found : table[i].is_default
        THEN [result |-> FALSE, table |-> table]
        ELSE [result |-> TRUE,
              table |-> [i \in DOMAIN table |->
                            IF i \in found THEN [table[i] EXCEPT !.is_active = FALSE] ELSE table[i]]]

\* How many default rows a user has.
DefaultCount(table, user_id) ==
    Cardinality({i \in DOMAIN table : table[i].user_id = user_id /\ table[i].is_default})

CatCall(op, user_id, arg, result) ==
    [op |-> op, user_id |-> user_id, arg |-> arg, result |-> result,
     before |-> DefaultCount(categories, user_id)]

SetState(u, st) == [fsm EXCEPT ![u] = [state |-> st, data |-> NoData]]

\* categories.cmd_categories up to the SELECT inside
\* get_or_create_default_categories: a user with active categories gets the
\* list; for a user with none the handler goes on to insert the defaults.
\* Updates are handled as concurrent tasks, each in its own session.
cmd_categories(u) ==
    /\ IF get_user_categories(categories, u) # {}
       THEN /\ lastCat' = CatCall("cmd_categories", u, None, "listed")
            /\ fsm' = SetState(u, "CategoryStates:viewing_categories")
            /\ UNCHANGED seeding
       ELSE /\ seeding[u] < MaxHandlers
            /\ seeding' = [seeding EXCEPT ![u] = @ + 1]
            /\ lastCat' = CatCall("cmd_categories", u, None, "seeding")
            /\ UNCHANGED fsm
    /\ UNCHANGED <<throttleVars, companyVars, transactions, dupVars, users, lastUpdate,
                   rateVars, categories, sessVars, sysVars>>

\* cmd_categories from the insert on: the nine rows are added, flushed and
\* committed, and the list is shown.
cmd_categories_seed(u) ==
    /\ seeding[u] > 0
    /\ seeding' = [seeding EXCEPT ![u] = @ - 1]
    /\ categories' = AddDefaults(categories, u, 1, FALSE)
    /\ lastCat' = CatCall("get_or_create_default_categories", u, None, "seeded")
    /\ fsm' = SetState(u, "CategoryStates:viewing_categories")
    /\ UNCHANGED <<throttleVars, companyVars, transactions, dupVars, users, lastUpdate,
                   rateVars, sessVars, sysVars>>

\* categories.process_icon_selection, the last step of the creation dialog
\* opened from the list.
process_icon_selection(u, name_ru) ==
    /\ fsm[u].state = "CategoryStates:viewing_categories"
    /\ Cardinality({i \in DOMAIN categories :
                       categories[i].user_id = u /\ ~categories[i].is_default}) < MaxCustom
    /\ categories' = create_category(categories, u, name_ru)
    /\ lastCat' = CatCall("create_category", u, name_ru, "created")
    /\ fsm' = SetState(u, None)
    /\ UNCHANGED <<throttleVars, companyVars, transactions, dupVars, users, lastUpdate,
                   rateVars, seeding, sessVars, sysVars>>

\* categories.confirm_delete_category followed by categories.delete_category:
\* an unknown id and a default category are answered at the first step.
confirm_delete_category(u, category_id) ==
    LET d == delete_category(categories, category_id, u)
        own == {i \in DOMAIN categories : categories[i].id = category_id /\ categories[i].user_id = u}
    IN  /\ categories' = d.table
        /\ lastCat' = CatCall("delete_category", u, category_id,
                              IF own = {} THEN "unknown"
                              ELSE IF d.result THEN "deleted" ELSE "refused")
        /\ fsm' = IF d.result THEN SetState(u, None) ELSE fsm
        /\ UNCHANGED <<throttleVars, companyVars, transactions, dupVars, users, lastUpdate,
                       rateVars, seeding, sessVars, sysVars>>

\* expense.process_quick_category up to the category lookup: without a
\* category the handler answers errors.unknown and returns.
quick_category_lookup(u, key) ==
    /\ lastCat' = CatCall("get_default_category", u, key,
                          IF get_default_category(categories, u, key) = NoCategory
                          THEN None ELSE "found")
    /\ UNCHANGED <<throttleVars, companyVars, transactions, dupVars, botVars,
                   rateVars, categories, seeding, sessVars, sysVars>>

\* settings.cmd_settings
cmd_settings(u) ==
    /\ fsm[u].state # "SettingsStates:main_menu"
    /\ fsm' = SetState(u, "SettingsStates:main_menu")
    /\ UNCHANGED <<throttleVars, companyVars, transactions, dupVars, users, lastUpdate, svcVars>>

\* settings.show_clear_data_confirmation
show_clear_data_confirmation(u) ==
    /\ fsm[u].state = "SettingsStates:main_menu"
    /\ fsm' = SetState(u, "SettingsStates:confirming_clear_data")
    /\ UNCHANGED <<throttleVars, companyVars, transactions, dupVars, users, lastUpdate, svcVars>>

\* settings.confirm_clear_data: DELETE of the user's transactions and of the
\* user's non-default categories, commit, create_default_categories, commit.
confirm_clear_data(u) ==
    LET KeepTransaction(r) == r.user_id # u
        KeepCategory(r) == r.user_id # u \/ r.is_default
    IN  /\ fsm[u].state = "SettingsStates:confirming_clear_data"
        /\ transactions' = SelectSeq(transactions, KeepTransaction)
        /\ categories' = create_default_categories(SelectSeq(categories, KeepCategory), u)
        /\ fsm' = SetState(u, None)
        /\ lastCall' = [op |-> "confirm_clear_data", transaction_id |-> 0,
                        result |-> \E i \in DOMAIN transactions : transactions[i].user_id = u]
        /\ lastCat' = CatCall("create_default_categories", u, None, "seeded")
        /\ lastSearch' = NoSearch
        /\ UNCHANGED <<throttleVars, companies, approval_rules, company_members,
                       company_transactions, users, lastUpdate, rateVars, seeding, sessVars, sysVars>>

QuickKeys == {"food", "other"}

\* The categories a user asks to delete: the user's own custom ones, the
\* user's default "Prochee", and one of another user (id 1).
DeleteRequests(u) ==
    {1} \cup {categories[i].id : i \in {j \in DOMAIN categories :
                                           /\ categories[j].user_id = u
                                           /\ (~categories[j].is_default \/ categories[j].name_ru = "Prochee")}}

InitCategory ==
    /\ now = 0
    /\ InitThrottleIdle
    /\ InitCompanyIdle
    /\ InitRatesIdle
    /\ InitSessIdle
    /\ InitSysIdle
    /\ lastSearch = NoSearch
    /\ users = <<>>
    /\ lastUpdate = NoHandled
    /\ fsm = [u \in CatUsers |-> [state |-> None, data |-> NoData]]
    /\ categories = AddDefaults(<<>>, 2, 1, FALSE)   \* user 2 has been seeded
    /\ seeding = [u \in CatUsers |-> 0]
    /\ lastCat = NoCatCall

NextCategory ==
    \/ \E u \in CatUsers : cmd_categories(u)
    \/ \E u \in CatUsers : cmd_categories_seed(u)
    \/ \E u \in CatUsers, name_ru \in CustomNames : process_icon_selection(u, name_ru)
    \/ \E u \in CatUsers : \E category_id \in DeleteRequests(u) : confirm_delete_category(u, category_id)
    \/ \E u \in CatUsers, key \in QuickKeys : quick_category_lookup(u, key)
    \/ \E u \in CatUsers : cmd_settings(u)
    \/ \E u \in CatUsers : show_clear_data_confirmation(u)
    \/ \E u \in CatUsers : confirm_clear_data(u)

SpecCategory == InitCategory /\ [][NextCategory]_vars

\* C16: for a brand-new user, for whom no seeding has been made or begun, the
\* request for the default category of key food answers a category (the
\* request itself seeds).
C16_LookupSeedsNewUser ==
    (/\ lastCat.op = "get_default_category"
     /\ lastCat.arg = "food"
     /\ lastCat.before = 0) => lastCat.result = "found"

\* A user has no two default categories of one name.
NoDuplicateDefaults(table, user_id) ==
    \A i \in 1..Len(default_categories) :
        Cardinality(DefaultRows(table, user_id, default_categories[i])) <= 1

\* The two seeding operations.
Seed(which, table, user_id) ==
    IF which = 1 THEN get_or_create_default_categories(table, user_id)
    ELSE create_default_categories(table, user_id)

\* C17: from any table the program reaches in which the user has no duplicate
\* default categories, seeding twice (either operation, in either order)
\* leaves no two default categories of one name, and the same operation
\* called a second time adds nothing.
C17_SeedingTwiceAddsNoDuplicate ==
    \A u \in CatUsers :
        NoDuplicateDefaults(categories, u) =>
            \A f \in {1, 2}, g \in {1, 2} :
                /\ NoDuplicateDefaults(Seed(g, Seed(f, categories, u), u), u)
                /\ Seed(f, Seed(f, categories, u), u) = Seed(f, categories, u)

\* Clear-all-data has re-seeded a user who had the nine default categories,
\* and the user still has nine.
C17_Witness ==
    /\ lastCat.op = "create_default_categories"
    /\ lastCat.before = Len(default_categories)
    /\ DefaultCount(categories, lastCat.user_id) = Len(default_categories)

\* C18: a user who has default categories has exactly one of each of the nine
\* names.
C18_OneCategoryPerDefaultKey ==
    \A u \in CatUsers :
        DefaultCount(categories, u) > 0 =>
            \A i \in 1..Len(default_categories) :
                Cardinality(DefaultRows(categories, u, default_categories[i])) = 1

\* C19: no step removes or deactivates a default category, and a delete
\* request for one is refused.
C19_DefaultNeverDeleted ==
    [][/\ \A i \in DOMAIN categories :
             categories[i].is_default => \E j \in DOMAIN categories' : categories'[j] = categories[i]
       /\ (/\ lastCat'.op = "delete_category"
           /\ lastCat' # lastCat
           /\ \E i \in DOMAIN categories : /\ categories[i].id = lastCat'.arg
                                           /\ categories[i].user_id = lastCat'.user_id
                                           /\ categories[i].is_default)
          => lastCat'.result = "refused"]_vars

\* A delete request for one of the user's own default categories was refused,
\* with a custom category of the same user deleted earlier.
C19_Witness ==
    /\ lastCat.op = "delete_category"
    /\ lastCat.result = "refused"
    /\ \E i \in DOMAIN categories : /\ categories[i].id = lastCat.arg
                                    /\ categories[i].is_default
                                    /\ categories[i].is_active
    /\ \E i \in DOMAIN categories : ~categories[i].is_default /\ ~categories[i].is_active

(***************************************************************************)
(* The ledger: TransactionService's reads over the table transactions,     *)
(* soft deletion, and the clear-all-data flow of the settings menu.        *)
(***************************************************************************)
SecondsPerDay == 86400

\* The rows of a user the reads look at (positions).
LiveRows(table, user_id) ==
    {i \in DOMAIN table : table[i].user_id = user_id /\ ~table[i].is_deleted}

\* func.sum(amount_primary), func.count(id) over rows; an empty sum is 0.
RECURSIVE SumPrimary(_, _)
SumPrimary(table, rows) ==
    IF rows = {} THEN 0
    ELSE LET i == CHOOSE i \in rows : TRUE
         IN  table[i].amount_primary + SumPrimary(table, rows \ {i})

Spending(table, rows) == [total |-> SumPrimary(table, rows), count |-> Cardinality(rows)]

\* TransactionService.get_user_transactions with no filter (the rows; the
\* default page of 50 holds them all).
get_user_transactions(table, user_id) ==
    {table[i] : i \in LiveRows(table, user_id)}

\* TransactionService.get_today_spending
get_today_spending(table, user_id) ==
    Spending(table, {i \in LiveRows(table, user_id) :
                        table[i].transaction_date \div SecondsPerDay = now \div SecondsPerDay})

\* Mutant: deleted rows are summed too.
get_period_spending_all(table, user_id, start_date, end_date) ==
    Spending(table, {i \in DOMAIN table :
                        /\ table[i].user_id = user_id
                        /\ table[i].transaction_date >= start_date
                        /\ table[i].transaction_date <= end_date})

\* TransactionService.get_period_spending
get_period_spending(table, user_id, start_date, end_date) ==
    Spending(table, {i \in LiveRows(table, user_id) :
                        /\ table[i].transaction_date >= start_date
                        /\ table[i].transaction_date <= end_date})

\* TransactionService.search_transactions (the rows; the merchant column)
search_transactions(table, user_id, query) ==
    {table[i] : i \in {j \in LiveRows(table, user_id) : ILikeContains(table[j].merchant, query)}}

LedgerUsers == {1, 2}
ClearingUsers == {1}
\* The transactions that may be recorded: <<user, amount, merchant, time>>.
LedgerRows == {<<1, 250000, Ma, 0>>, <<1, 120000, NoText, 0>>, <<1, 250000, ma_x, 90000>>,
               <<2, 250000, Ma, 0>>}
Periods == {<<0, SecondsPerDay>>, <<SecondsPerDay, 2 * SecondsPerDay>>}
Queries == {Ma, <<"x">>}

InitLedger ==
    /\ now = 0
    /\ InitThrottleIdle
    /\ InitCompanyIdle
    /\ InitSvcIdle
    /\ lastSearch = NoSearch
    /\ users = <<>>
    /\ lastUpdate = NoHandled
    /\ fsm = [u \in ClearingUsers |-> [state |-> None, data |-> NoData]]

NextLedger ==
    \/ \E r \in LedgerRows : AddTransaction(r[1], r[2], r[3], r[4])
    \/ \E t \in 1..(MaxTx + 2), u \in LedgerUsers : delete_transaction(t, u)
    \/ \E u \in ClearingUsers : cmd_settings(u)
    \/ \E u \in ClearingUsers : show_clear_data_confirmation(u)
    \/ \E u \in ClearingUsers : confirm_clear_data(u)

SpecLedger == InitLedger /\ [][NextLedger]_vars

\* The table without the row at position i.
Without(i) == [j \in 1..(Len(transactions) - 1) |->
                  IF j < i THEN transactions[j] ELSE transactions[j + 1]]

\* The four reads of a user, over a table.
Reads(table, user_id) ==
    [today |-> get_today_spending(table, user_id),
     period |-> [p \in Periods |-> get_period_spending(table, user_id, p[1], p[2])],
     listed |-> get_user_transactions(table, user_id),
     found |-> [q \in Queries |-> search_transactions(table, user_id, q)]]

\* C12: once delete_transaction has succeeded for a transaction, its row is
\* in the table, flagged; for as long as the row is there it stays flagged and
\* today's spending, a period's spending, the listing and the search of its
\* user are what they would be without the row.
C12_DeletedIsExcluded ==
    /\ [](/\ \A i \in DOMAIN transactions :
                transactions[i].is_deleted =>
                    Reads(transactions, transactions[i].user_id)
                        = Reads(Without(i), transactions[i].user_id)
          /\ (lastCall.op = "delete_transaction" /\ lastCall.result) =>
                \E i \in DOMAIN transactions : /\ transactions[i].id = lastCall.transaction_id
                                               /\ transactions[i].is_deleted)
    /\ [][\A i \in DOMAIN transactions :
             transactions[i].is_deleted =>
                 \A j \in DOMAIN transactions' :
                     transactions'[j].id = transactions[i].id => transactions'[j].is_deleted]_vars

\* A transaction of today was deleted while the same user has another one of
\* today with the same merchant.
C12_Witness ==
    /\ lastCall.op = "delete_transaction"
    /\ \E i \in DOMAIN transactions, j \in DOMAIN transactions :
          /\ transactions[i].id = lastCall.transaction_id
          /\ transactions[i].is_deleted
          /\ transactions[i].merchant = Ma
          /\ ~transactions[j].is_deleted
          /\ transactions[j].user_id = transactions[i].user_id
          /\ get_today_spending(transactions, transactions[i].user_id).count = 1

\* C13: no step removes a transaction row from the table.
C13_NeverPurged ==
    [][\A i \in DOMAIN transactions :
          \E j \in DOMAIN transactions' : transactions'[j].id = transactions[i].id]_vars

\* C13, amended: the only step that removes transaction rows is the confirmed
\* clear-all-data of a user, and it removes the rows of that user, all of
\* them, and no other row.
C13_OnlyClearDataPurges ==
    [][(\E i \in DOMAIN transactions :
           \A j \in DOMAIN transactions' : transactions'[j].id # transactions[i].id)
       => \E u \in ClearingUsers :
             /\ fsm[u].state = "SettingsStates:confirming_clear_data"
             /\ lastCall'.op = "confirm_clear_data"
             /\ \A i \in DOMAIN transactions :
                   (transactions[i].user_id = u)
                       <=> (\A j \in DOMAIN transactions' : transactions'[j].id # transactions[i].id)]_vars

\* Clear-all-data has removed a user's rows and another user's row is still
\* in the table.
C13_Witness ==
    /\ lastCall.op = "confirm_clear_data"
    /\ lastCall.result
    /\ transactions # <<>>
    /\ \A i \in DOMAIN transactions : transactions[i].user_id \notin ClearingUsers

(***************************************************************************)
(* The session scope: database.base.get_session, an asynccontextmanager    *)
(* over a generator with a retry loop around its single yield.             *)
(***************************************************************************)
MaxWrites == 2
MaxScopes == 2
max_retries == 3

\* async_session_maker(): a session with no transaction begun.
NewSession == [closed |-> FALSE, pending |-> 0, durable |-> 0, discarded |-> 0,
               commits |-> 0, rollbacks |-> 0, closes |-> 0]

\* session.commit(): the flushed writes become durable.
session_commit(s) == [s EXCEPT !.durable = @ + s.pending, !.pending = 0, !.commits = @ + 1]

\* session.commit() raising: nothing becomes durable.
session_commit_fails(s) == [s EXCEPT !.commits = @ + 1]

\* session.rollback(): the flushed writes are discarded.
session_rollback(s) == [s EXCEPT !.discarded = @ + s.pending, !.pending = 0, !.rollbacks = @ + 1]

\* Mutant: close keeps the session and its transaction open.
session_close_noop(s) == [s EXCEPT !.closes = @ + 1]

\* session.close(): the connection is released, which ends an open
\* transaction without committing it.
session_close(s) ==
    [s EXCEPT !.closed = TRUE, !.discarded = @ + s.pending, !.pending = 0, !.closes = @ + 1]

\* What the body of a scope may raise, and what the final commit may raise.
\* CancelledError is not an Exception.
Raises == {"Exception", "OperationalError", "OperationalError:deadlock found", "CancelledError"}
CommitRaises == {None, "OperationalError", "OperationalError:deadlock found"}

is_retryable(e) == e = "OperationalError:deadlock found"

\* `async with get_session() as session:' is entered: the loop's first pass
\* makes a session and yields it.
EnterScope ==
    /\ scope.pc \in {"idle", "exited"}
    /\ Len(sessions) < MaxScopes
    /\ sessions' = Append(sessions, NewSession)
    /\ scope' = [pc |-> "body", session |-> Len(sessions) + 1, attempt |-> 0,
                 outcome |-> None, raised |-> None, pending |-> 0]
    /\ UNCHANGED <<throttleVars, companyVars, transactions, dupVars, botVars, rateVars, catVars,
                   committed, sysVars>>

\* The body adds a row and flushes.
BodyFlush ==
    /\ scope.pc = "body"
    /\ sessions[scope.session].pending + sessions[scope.session].durable < MaxWrites
    /\ sessions' = [sessions EXCEPT ![scope.session].pending = @ + 1]
    /\ UNCHANGED <<throttleVars, companyVars, transactions, dupVars, botVars, rateVars, catVars,
                   scope, committed, sysVars>>

\* The body calls session.commit() itself, as most handlers do.
BodyCommit ==
    /\ scope.pc = "body"
    /\ sessions[scope.session].pending > 0
    /\ sessions' = [sessions EXCEPT ![scope.session] = session_commit(@)]
    /\ committed' = committed + sessions[scope.session].pending
    /\ UNCHANGED <<throttleVars, companyVars, transactions, dupVars, botVars, rateVars, catVars,
                   scope, sysVars>>

\* The generator after an error e was caught at attempt 0 with the session
\* rolled back: a retryable OperationalError closes the session and goes
\* round the loop, where a second session is made and yielded; anything
\* else is raised again. `finally' closes the session on both ways. A second
\* yield makes the context manager raise RuntimeError, with the generator
\* suspended holding the new session.
AfterError(s, e, kind) ==
    IF e \in {"OperationalError", "OperationalError:deadlock found"} /\ is_retryable(e)
          /\ scope.attempt < max_retries
    THEN [sessions |-> Append([sessions EXCEPT ![scope.session] = session_close(session_close(s))],
                              NewSession),
          scope |-> [scope EXCEPT !.pc = "suspended", !.outcome = kind,
                                  !.raised = "RuntimeError", !.attempt = @ + 1,
                                  !.pending = sessions[scope.session].pending]]
    ELSE [sessions |-> [sessions EXCEPT ![scope.session] = session_close(s)],
          scope |-> [scope EXCEPT !.pc = "exited", !.outcome = kind, !.raised = e,
                                  !.pending = sessions[scope.session].pending]]

\* The body ends normally: the generator resumes after the yield and commits.
ExitNormal(commit_raises) ==
    /\ scope.pc = "body"
    /\ LET s == sessions[scope.session]
       IN  IF commit_raises = None
           THEN /\ sessions' = [sessions EXCEPT ![scope.session] = session_close(session_commit(s))]
                /\ committed' = committed + s.pending
                /\ scope' = [scope EXCEPT !.pc = "exited", !.outcome = "normal",
                                          !.pending = s.pending]
           ELSE LET a == AfterError(session_rollback(session_commit_fails(s)), commit_raises,
                                    "commit failed")
                IN  /\ sessions' = a.sessions
                    /\ scope' = a.scope
                    /\ UNCHANGED committed
    /\ UNCHANGED <<throttleVars, companyVars, transactions, dupVars, botVars, rateVars, catVars, sysVars>>

\* The body raises e: it is thrown into the generator at the yield. An
\* Exception is caught and the session rolled back; CancelledError passes the
\* except clauses and only `finally' runs.
ExitRaise(e) ==
    /\ scope.pc = "body"
    /\ LET s == sessions[scope.session]
           a == IF e = "CancelledError"
                THEN [sessions |-> [sessions EXCEPT ![scope.session] = session_close(s)],
                      scope |-> [scope EXCEPT !.pc = "exited", !.outcome = "raised", !.raised = e,
                                              !.pending = s.pending]]
                ELSE AfterError(session_rollback(s), e, "raised")
       IN  /\ sessions' = a.sessions
           /\ scope' = a.scope
    /\ UNCHANGED <<throttleVars, companyVars, transactions, dupVars, botVars, rateVars, catVars,
                   committed, sysVars>>

\* The suspended generator is closed (by the context manager, or when it is
\* collected): GeneratorExit at the yield runs `finally'.
CloseGenerator ==
    /\ scope.pc = "suspended"
    /\ sessions' = [sessions EXCEPT ![Len(sessions)] = session_close(@)]
    /\ scope' = [scope EXCEPT !.pc = "exited"]
    /\ UNCHANGED <<throttleVars, companyVars, transactions, dupVars, botVars, rateVars, catVars,
                   committed, sysVars>>

InitSession ==
    /\ now = 0
    /\ InitThrottleIdle
    /\ InitCompanyIdle
    /\ InitBotIdle
    /\ InitRatesIdle
    /\ InitCatIdle
    /\ InitSessIdle
    /\ InitSysIdle

NextSession ==
    \/ EnterScope
    \/ BodyFlush
    \/ BodyCommit
    \/ \E commit_raises \in CommitRaises : ExitNormal(commit_raises)
    \/ \E e \in Raises : ExitRaise(e)
    \/ CloseGenerator

SpecSession == InitSession /\ [][NextSession]_vars

\* C20: when a scope has been left, its session is closed with nothing
\* pending; after a normal end of the body commit was called and, unless the
\* commit itself failed, everything the body had flushed is durable; after an
\* exception in the body nothing that was pending became durable.
C20_SessionScope ==
    scope.pc \in {"exited", "suspended"} =>
        LET s == sessions[scope.session]
        IN  /\ s.closed
            /\ s.pending = 0
            /\ scope.outcome = "normal" => s.commits >= 1 /\ s.discarded = 0
            /\ scope.outcome = "commit failed" => s.commits >= 1 /\ s.discarded = scope.pending
            /\ scope.outcome = "raised" => s.discarded = scope.pending

\* A scope whose body flushed two writes and raised has been left.
C20_Witness ==
    /\ scope.pc = "exited"
    /\ scope.outcome = "raised"
    /\ scope.raised = "Exception"
    /\ scope.pending = MaxWrites
    /\ sessions[scope.session].rollbacks = 1
    /\ committed = 0

\* C21: a scope whose work failed with a transient error hands the handler
\* the underlying error, never another one, and only after max_retries
\* retries have been made.
C21_TransientIsRetried ==
    (scope.pc \in {"exited", "suspended"} /\ scope.raised # None) =>
        /\ scope.raised \in Raises
        /\ is_retryable(scope.raised) => scope.attempt = max_retries

\* C22: when the currency lookup of a handler fails (the service raises, or
\* answers that it has no rate), nothing is raised out of the handler and
\* the user is sent an error message.
C22_LookupFailureIsReported ==
    (/\ lastUpdate.handler = "text_expense.process_text_expense"
     /\ lastRate.op = "convert_amount"
     /\ (lastRate.raised # None \/ lastRate.rate = NoRate)) =>
        /\ lastUpdate.raised = None
        /\ lastUpdate.reply \notin {None, "saved"}

(***************************************************************************)
(* The dialogs as a whole: every session state some handler sets, with the *)
(* updates that are open to the user in all of them (a photo, a document,  *)
(* a cancel button).                                                       *)
(***************************************************************************)
\* The states of bot/states.py and handlers/company.py that a set_state call
\* of some handler names.
DialogStates ==
    {"RegistrationStates:choosing_language",
     "ExpenseStates:waiting_for_amount", "ExpenseStates:waiting_for_category",
     "ReceiptStates:processing_image", "ReceiptStates:editing_amount",
     "ReceiptStates:selecting_category", "ReceiptStates:selecting_currency",
     "ReceiptStates:confirming_duplicate", "ReceiptStates:choosing_category",
     "ReceiptStates:clarifying_amount", "ReceiptStates:asking_description",
     "CategoryStates:viewing_categories", "CategoryStates:entering_name_ru",
     "CategoryStates:entering_name_kz", "CategoryStates:selecting_icon",
     "CategoryStates:confirming_delete",
     "ExportStates:selecting_period", "ExportStates:selecting_format",
     "ExportStates:selecting_categories",
     "SettingsStates:main_menu", "SettingsStates:changing_language",
     "SettingsStates:changing_currency", "SettingsStates:changing_timezone",
     "SettingsStates:confirming_clear_data",
     "CompanyStates:entering_name", "CompanyStates:entering_description",
     "CompanyStates:entering_invite_code"}

\* A menu or a dialog step puts the session into one of its states.
EnterState(u, st) ==
    /\ fsm[u].state # st
    /\ fsm' = [fsm EXCEPT ![u].state = st]
    /\ lastUpdate' = [NoHandled EXCEPT !.handler = "set_state", !.user = u, !.state = fsm[u].state]
    /\ UNCHANGED <<throttleVars, companyVars, transactions, dupVars, users, svcVars>>

DialogMessages == PhotoMessages \cup DocumentMessages
DialogCallbacks == {upd \in Callbacks : upd.key = "cancel"}

NextDialog ==
    \/ \E u \in BotUsers, st \in DialogStates : EnterState(u, st)
    \/ \E u \in BotUsers, upd \in DialogMessages : OnMessage(u, upd)
    \/ \E u \in BotUsers, upd \in DialogCallbacks : OnCallback(u, upd)
    \/ \E d \in TickSteps : BotTick(d)

SpecDialog == InitBot /\ [][NextDialog]_vars

\* C23: in every session state some update of the user has a handler that
\* accepts it, and some update brings the session back to idle.
C23_NeverStuck ==
    \A u \in BotUsers :
        /\ \/ \E upd \in DialogMessages : Dispatch(MessageHandlers, upd, fsm[u].state) # "UNHANDLED"
           \/ \E upd \in DialogCallbacks : Dispatch(CallbackHandlers, upd, fsm[u].state) # "UNHANDLED"
        /\ ENABLED (/\ \/ \E upd \in DialogMessages : OnMessage(u, upd)
                       \/ \E upd \in DialogCallbacks : OnCallback(u, upd)
                    /\ fsm'[u].state = None)

\* A session in a state whose own buttons have no handler (choosing_category)
\* was brought back to idle by the cancel button.
C23_Witness ==
    /\ lastUpdate.state = "ReceiptStates:choosing_category"
    /\ lastUpdate.handler = "expense.cancel_expense"
    /\ fsm[lastUpdate.user].state = None

(***************************************************************************)
(* The inline text interpreter and the seeded default categories.          *)
(***************************************************************************)
\* The keys of TextExpenseParser.CATEGORY_KEYWORDS; detect_category answers
\* "other" for a text without a keyword.
CategoryKeys == {"food", "transport", "home", "health", "entertainment", "shopping",
                 "education", "other"}

\* The category_map of process_text_expense.
category_map ==
    [food |-> "Eda i restorany", transport |-> "Transport", home |-> "Dom i kommunalnye",
     health |-> "Zdorove i medicina", entertainment |-> "Razvlecheniya", shopping |-> "Pokupki",
     education |-> "Obrazovanie", other |-> "Drugoe"]

\* select(Category).where(user_id, name_ru, is_default).limit(1)
DefaultByName(table, user_id, name_ru) ==
    LET rows == DefaultRows(table, user_id, name_ru)
    IN  IF rows = {} THEN NoCategory
        ELSE table[CHOOSE i \in rows : \A j \in rows : i <= j]

\* The category process_text_expense resolves: the mapped name, else "Drugoe".
text_category(table, user_id, category) ==
    LET category_obj == DefaultByName(table, user_id, category_map[category])
    IN  IF category_obj # NoCategory THEN category_obj
        ELSE DefaultByName(table, user_id, "Drugoe")

InlineUsers == {1, 2}
InlineTexts == [amount : {50000, 120000}, category : CategoryKeys]

\* process_text_expense for a text in the user's own currency in which
\* extract_amount finds the amount and detect_category the key: without a
\* category row the handler returns, otherwise the row is created and
\* committed and the confirmation sent.
process_text_expense_category(u, text) ==
    LET category_obj == text_category(categories, u, text.category)
        row == create_transaction(u, text.amount, users[u].primary_currency, category_obj.id,
                                  NoText, now, text.amount, RateScale)
    IN  /\ fsm[u].state = None
        /\ Len(transactions) < MaxTx
        /\ lastCat' = [op |-> "text_category", user_id |-> u, arg |-> text.category,
                       result |-> category_obj.name_ru, before |-> Len(transactions)]
        /\ IF category_obj = NoCategory
           THEN /\ UNCHANGED transactions
                /\ lastUpdate' = [NoHandled EXCEPT !.handler = "text_expense.process_text_expense",
                                                   !.user = u]
           ELSE /\ transactions' = Append(transactions, row)
                /\ lastUpdate' = [NoHandled EXCEPT !.handler = "text_expense.process_text_expense",
                                                   !.user = u, !.saved = row.id, !.reply = "saved"]
        /\ UNCHANGED <<throttleVars, companyVars, dupVars, fsm, users, rateVars, categories, seeding,
                       sessVars, sysVars>>

\* Two registered users with their nine default categories, no dialog open.
InitInline ==
    /\ now = 0
    /\ InitThrottleIdle
    /\ InitCompanyIdle
    /\ InitRatesIdle
    /\ InitSessIdle
    /\ InitSysIdle
    /\ lastSearch = NoSearch
    /\ lastUpdate = NoHandled
    /\ users = [u \in InlineUsers |-> [active_company_id |-> None, primary_currency |-> "KZT"]]
    /\ fsm = [u \in InlineUsers |-> [state |-> None, data |-> NoData]]
    /\ categories = AddDefaults(AddDefaults(<<>>, 1, 1, FALSE), 2, 1, FALSE)
    /\ seeding = [u \in InlineUsers |-> 0]
    /\ lastCat = NoCatCall

NextInline ==
    \/ \E u \in InlineUsers, text \in InlineTexts : process_text_expense_category(u, text)
    \/ \E d \in TickSteps : BotTick(d)

SpecInline == InitInline /\ [][NextInline]_vars

\* C24: an inline text with an amount, sent by an idle user with seeded
\* categories, adds exactly one transaction of that user, in the user's
\* default category for the detected key, and is confirmed at once.
C24_InlineTextIsSaved ==
    (lastUpdate.handler = "text_expense.process_text_expense" /\ lastCat.op = "text_category") =>
        LET wanted == get_default_category(categories, lastCat.user_id, lastCat.arg)
        IN  /\ Len(transactions) = lastCat.before + 1
            /\ transactions[Len(transactions)].user_id = lastCat.user_id
            /\ transactions[Len(transactions)].category_id = wanted.id
            /\ lastUpdate.reply = "saved"

\* ------------------------------------------------------------------------
\* The order of the side effects inside one handler run.  A run is a record
\* with the handler, its position and the log of what it has done so far:
\* "write" (a row added to the session), "commit", "confirmation" (the text
\* that tells the user the change is saved), "file" (a document sent to the
\* user), "notice" (a loading, empty or error text) and "raised" (the
\* exception left the handler).  Every awaited call may fail.

MaxRuns == 2

LoggedHandlers == {"expense.process_quick_category", "export.generate_export", "photo.process_receipt_photo"}

Proceed(i, event, pc) == runs' = [runs EXCEPT ![i].log = Append(@, event), ![i].pc = pc]

\* A handler starts for an update the router gave it.
StartRun(h, u) ==
    /\ Len(runs) < MaxRuns
    /\ runs' = Append(runs, [handler |-> h, user |-> u, pc |-> "start", log |-> <<>>])
    /\ UNCHANGED <<throttleVars, companyVars, transactions, dupVars, botVars, rateVars, catVars, sessVars, deploy, dispatcher>>

\* expense.py process_quick_category: category lookup, create_transaction,
\* commit, then the saved text and state.clear(); nothing catches.
process_quick_category_run(i) ==
    /\ runs[i].handler = "expense.process_quick_category"
    /\ \/ /\ runs[i].pc = "start"
          /\ \/ Proceed(i, "notice", "done")
             \/ Proceed(i, "write", "created")
       \/ /\ runs[i].pc = "created"
          /\ \/ Proceed(i, "commit", "committed")
             \/ Proceed(i, "raised", "done")
       \/ /\ runs[i].pc = "committed"
          /\ \/ Proceed(i, "confirmation", "done")
             \/ Proceed(i, "raised", "done")
    /\ UNCHANGED <<throttleVars, companyVars, transactions, dupVars, botVars, rateVars, catVars, sessVars, deploy, dispatcher>>

\* photo.py process_receipt_photo, the tail that saves at once:
\* create_transaction, commit, then the saved text; the handler's except
\* answers with the quality error.
process_receipt_photo_run(i) ==
    /\ runs[i].handler = "photo.process_receipt_photo"
    /\ \/ /\ runs[i].pc = "start"
          /\ \/ Proceed(i, "write", "created")
             \/ Proceed(i, "notice", "done")
       \/ /\ runs[i].pc = "created"
          /\ \/ Proceed(i, "commit", "committed")
             \/ Proceed(i, "notice", "done")
       \/ /\ runs[i].pc = "committed"
          /\ \/ Proceed(i, "confirmation", "done")
             \/ Proceed(i, "notice", "done")
    /\ UNCHANGED <<throttleVars, companyVars, transactions, dupVars, botVars, rateVars, catVars, sessVars, deploy, dispatcher>>

\* export.py generate_export: the loading text, export_transactions, then
\* answer_document, and only then session.add(ExportHistory) and commit; the
\* except answers with the error text.
generate_export_run(i) ==
    /\ runs[i].handler = "export.generate_export"
    /\ \/ /\ runs[i].pc = "start"
          /\ \/ Proceed(i, "notice", "loading")
             \/ Proceed(i, "raised", "done")
       \/ /\ runs[i].pc = "loading"
          /\ \/ Proceed(i, "notice", "done")
             \/ Proceed(i, "file", "sent")
       \/ /\ runs[i].pc = "sent"
          /\ Proceed(i, "write", "added")
       \/ /\ runs[i].pc = "added"
          /\ \/ Proceed(i, "commit", "done")
             \/ Proceed(i, "notice", "done")
    /\ UNCHANGED <<throttleVars, companyVars, transactions, dupVars, botVars, rateVars, catVars, sessVars, deploy, dispatcher>>

InitRuns ==
    /\ now = 0
    /\ InitThrottleIdle
    /\ InitCompanyIdle
    /\ InitBotIdle
    /\ InitSvcIdle

NextRuns ==
    \/ \E h \in LoggedHandlers, u \in InlineUsers : StartRun(h, u)
    \/ \E i \in 1..Len(runs) : process_quick_category_run(i)
    \/ \E i \in 1..Len(runs) : process_receipt_photo_run(i)
    \/ \E i \in 1..Len(runs) : generate_export_run(i)

SpecRuns == InitRuns /\ [][NextRuns]_vars

\* C25: in every handler run, each confirmation text and each file the user
\* receives comes after the commit of every row the run writes.
C25_CommitBeforeReply ==
    \A i \in 1..Len(runs) : \A r \in 1..Len(runs[i].log) :
        runs[i].log[r] \in {"confirmation", "file"}
            => \A w \in 1..Len(runs[i].log) :
                runs[i].log[w] = "write"
                    => \E c \in 1..Len(runs[i].log) : w < c /\ c < r /\ runs[i].log[c] = "commit"

\* ------------------------------------------------------------------------
\* Company membership.  A CompanyMember row has its own id (autoincrement),
\* so two rows for one (company, user) pair would be two rows.  add_member
\* reads and then inserts; between the two another call may insert, hence a
\* call in flight is kept in runs between its SELECT and its flush.

MemberCompanyIds == {"c1", "c2"}
MemberUsers == {1, 2}
\* Of the roles owner, admin, manager and employee, the highest and the lowest.
Roles == {"owner", "employee"}
InviteCodes == MemberCompanyIds \cup {"no such company"}

MemberRows(company_id, user_id) ==
    {m \in company_members : m.company_id = company_id /\ m.user_id = user_id}

\* id = Column(Integer, primary_key=True, autoincrement=True): the id a new
\* row of the table gets.
autoincrement(rows) ==
    IF rows = {} THEN 1 ELSE 1 + CHOOSE m \in {r.id : r \in rows} : \A r \in rows : r.id <= m

\* UniqueConstraint('company_id', 'user_id', name='uq_company_member'): the
\* insert of a second row for the pair fails.
uq_company_member_absent(company_id, user_id) == FALSE

uq_company_member(company_id, user_id) == MemberRows(company_id, user_id) # {}

MemberCall(op, company_id, user_id, was_member, raised) ==
    [op |-> op, company_id |-> company_id, user_id |-> user_id, was_member |-> was_member,
     raised |-> raised, before |-> company_members]

MembersFrame == UNCHANGED <<throttleVars, approval_rules, company_transactions, transactions,
                            dupVars, botVars, rateVars, catVars, sessVars, deploy, dispatcher>>

\* CompanyService.create_company (called by finalize_company_creation): the
\* Company row under a new uuid and its owner as the first member.
create_company(owner_id) ==
    /\ \E id \in MemberCompanyIds \ DOMAIN companies :
          /\ companies' = [c \in DOMAIN companies \cup {id} |->
                              IF c = id THEN [owner_id |-> owner_id, auto_approve_limit |-> 5000000]
                              ELSE companies[c]]
          /\ company_members' = company_members \cup
                {[id |-> autoincrement(company_members), company_id |-> id, user_id |-> owner_id,
                  role |-> "owner", can_approve |-> TRUE, is_active |-> TRUE]}
          /\ lastCall' = MemberCall("create_company", id, owner_id, FALSE, None)
    /\ UNCHANGED runs
    /\ MembersFrame

\* CompanyService.add_member up to its check: the SELECT for the pair; a row
\* found raises ValueError, otherwise the call goes on to the insert.
add_member_select(company_id, user_id, role) ==
    /\ company_id \in DOMAIN companies
    /\ IF MemberRows(company_id, user_id) # {}
       THEN /\ lastCall' = MemberCall("add_member", company_id, user_id, TRUE, "ValueError")
            /\ UNCHANGED runs
       ELSE /\ Len(runs) < MaxRuns
            /\ runs' = Append(runs, [handler |-> "CompanyService.add_member", pc |-> "insert",
                                     company_id |-> company_id, user_id |-> user_id, role |-> role])
            /\ UNCHANGED lastCall
    /\ UNCHANGED <<companies, company_members>>
    /\ MembersFrame

\* CompanyService.add_member from session.add to flush: the INSERT, which
\* the unique constraint refuses when the pair has a row by now.
add_member_flush(i) ==
    LET call == runs[i]
        rest == [j \in 1..(Len(runs) - 1) |-> IF j < i THEN runs[j] ELSE runs[j + 1]]
    IN  /\ call.handler = "CompanyService.add_member"
        /\ runs' = rest
        /\ IF uq_company_member(call.company_id, call.user_id)
           THEN /\ lastCall' = MemberCall("add_member", call.company_id, call.user_id, TRUE, "IntegrityError")
                /\ UNCHANGED company_members
           ELSE /\ company_members' = company_members \cup
                      {[id |-> autoincrement(company_members), company_id |-> call.company_id,
                        user_id |-> call.user_id, role |-> call.role,
                        can_approve |-> FALSE, is_active |-> TRUE]}
                /\ lastCall' = MemberCall("add_member", call.company_id, call.user_id, FALSE, None)
        /\ UNCHANGED companies
        /\ MembersFrame

\* handlers/company.py process_invite_code: a code that matches no company
\* is answered as invalid; for one that matches, the handler calls
\* company_service.get_member, which CompanyService does not have.
process_invite_code(u, code) ==
    /\ lastCall' = IF code \in DOMAIN companies
                   THEN MemberCall("process_invite_code", code, u, MemberRows(code, u) # {}, "AttributeError")
                   ELSE MemberCall("process_invite_code", None, u, FALSE, None)
    /\ UNCHANGED <<companies, company_members, runs>>
    /\ MembersFrame

\* handlers/company.py join_company (/join <company id>): an unknown company
\* is answered as not found; for a known one the same missing get_member.
join_company(u, company_id) ==
    /\ lastCall' = IF company_id \in DOMAIN companies
                   THEN MemberCall("join_company", company_id, u, MemberRows(company_id, u) # {}, "AttributeError")
                   ELSE MemberCall("join_company", None, u, FALSE, None)
    /\ UNCHANGED <<companies, company_members, runs>>
    /\ MembersFrame

\* CompanyService.update_member_role: no row gives False; otherwise the
\* row's role becomes the one asked for, whoever the member is.
update_member_role(company_id, user_id, role) ==
    /\ company_id \in DOMAIN companies
    /\ company_members' = {IF m.company_id = company_id /\ m.user_id = user_id
                           THEN [m EXCEPT !.role = role] ELSE m : m \in company_members}
    /\ lastCall' = MemberCall("update_member_role", company_id, user_id,
                              MemberRows(company_id, user_id) # {}, None)
    /\ UNCHANGED <<companies, runs>>
    /\ MembersFrame

InitMembers ==
    /\ now = 0
    /\ InitThrottleIdle
    /\ InitCompanyIdle
    /\ InitBotIdle
    /\ InitSvcIdle

NextMembers ==
    \/ \E u \in MemberUsers : create_company(u)
    \/ \E c \in MemberCompanyIds, u \in MemberUsers : add_member_select(c, u, "employee")
    \/ \E i \in 1..Len(runs) : add_member_flush(i)
    \/ \E u \in MemberUsers, code \in InviteCodes : process_invite_code(u, code)
    \/ \E u \in MemberUsers, c \in InviteCodes : join_company(u, c)
    \/ \E c \in MemberCompanyIds, u \in MemberUsers, role \in Roles : update_member_role(c, u, role)

SpecMembers == InitMembers /\ [][NextMembers]_vars

AddOps == {"add_member", "process_invite_code", "join_company"}

\* C26: a (company, user) pair never has two CompanyMember rows, and a
\* request to add a user who is a member by then (through add_member, an
\* invite code or /join) fails and leaves the table as it was.
C26_OneRowPerMember ==
    /\ \A m1 \in company_members : \A m2 \in company_members :
          (m1.company_id = m2.company_id /\ m1.user_id = m2.user_id) => m1 = m2
    /\ (lastCall.op \in AddOps /\ lastCall.was_member)
          => (lastCall.raised # None /\ company_members = lastCall.before)

\* Two add_member calls for one pair both passed the check; the second
\* insert was refused by the constraint.
C26_Witness ==
    /\ lastCall.op = "add_member"
    /\ lastCall.raised = "IntegrityError"
    /\ Cardinality(MemberRows(lastCall.company_id, lastCall.user_id)) = 1

\* C27: every company's owner has a CompanyMember row of that company with
\* role owner.
C27_OwnerIsOwnerMember ==
    \A c \in DOMAIN companies :
        \E m \in company_members :
            m.company_id = c /\ m.user_id = companies[c].owner_id /\ m.role = "owner"

\* ------------------------------------------------------------------------
\* The two runtime variants and the middleware chain an update passes.

\* main_hot_reload.py: only the throttling gate on each observer.
main_hot_reload_middlewares == <<"ThrottlingMiddleware">>

\* main_hot_reload.py: dp = Dispatcher(storage=RedisStorage(redis=redis)).
main_hot_reload_dp ==
    [message |-> main_hot_reload_middlewares, callback_query |-> main_hot_reload_middlewares,
     routers |-> <<[router |-> "setup_handlers", imported |-> 0]>>, storage |-> "RedisStorage",
     attributes |-> {"sub_routers"}]

\* The Telegram accounts that are bots (from_user.is_bot).
BotAccounts == {2}

\* BotFilterMiddleware.__call__: an event whose sender is a bot is dropped.
BotFilterDrops(from_user) == from_user \in BotAccounts

\* An update of observer g from the account from_user enters the dispatcher:
\* the installed middlewares in order, then the handler.
feed_update(g, from_user) ==
    IF "BotFilterMiddleware" \in SeqToSet(dispatcher[g]) /\ BotFilterDrops(from_user)
    THEN /\ lastReq' = [NoReq EXCEPT !.gate = g, !.user = from_user, !.time = now]
         /\ UNCHANGED <<now, user_cache, accepted, rejected, companyVars, transactions, dupVars,
                        botVars, svcVars>>
    ELSE Request(g, from_user)

InitRuntime ==
    /\ now = 0
    /\ InitThrottleIdle
    /\ InitCompanyIdle
    /\ InitBotIdle
    /\ InitRatesIdle
    /\ InitCatIdle
    /\ InitSessIdle
    /\ runs = <<>>
    /\ deploy = NoDeploy
    /\ dispatcher \in {main_dp, main_hot_reload_dp}

NextRuntime ==
    \/ \E g \in Gates, u \in Users : feed_update(g, u)
    \/ \E d \in TickSteps : Tick(d)

SpecRuntime == InitRuntime /\ [][NextRuntime]_vars

\* C28: an update whose sender is a bot account is never passed to a handler,
\* whichever of the two variants set the dispatcher up.
C28_BotsNeverHandled ==
    (lastReq.gate # None /\ lastReq.user \in BotAccounts) => ~lastReq.handler

\* ------------------------------------------------------------------------
\* The deploy daemon (deploy/webhook_update.py).  A signature header is the
\* record of what it was computed from: "<alg>=" followed by the HMAC of the
\* body under the key; two headers are equal exactly when algorithm, key and
\* body are (no collisions).  A request body is the JSON it parses to: its
\* ref, or not JSON at all.

MaxDeploys == 2

WEBHOOK_SECRET == "your-webhook-secret"

Bodies == {[json |-> TRUE, ref |-> "refs/heads/main"], [json |-> TRUE, ref |-> "refs/heads/dev"],
           [json |-> TRUE, ref |-> None], [json |-> FALSE, ref |-> None]}
Events == {"push", "ping", None}
ScriptOutcomes == {"returncode 0", "returncode 1", "TimeoutExpired"}

Sign(alg, key, body) == [alg |-> alg, key |-> key, body |-> body]

EmptySignature == Sign("", None, None)

SignatureHeaders ==
    {NoSignature, EmptySignature}
        \cup {Sign(alg, key, body) : alg \in {"sha256", "sha1"}, key \in {WEBHOOK_SECRET, "another secret"},
                                     body \in Bodies}

verify_webhook_signature_skipped(payload_body, signature_header) == TRUE

\* verify_webhook_signature: no header or an empty one is refused; otherwise
\* the header must equal "sha256=" + HMAC-SHA256(WEBHOOK_SECRET, body).
verify_webhook_signature(payload_body, signature_header) ==
    IF signature_header \in {NoSignature, EmptySignature} THEN FALSE
    ELSE Sign("sha256", WEBHOOK_SECRET, payload_body) = signature_header

\* github_webhook: 401 on a bad signature; the body is parsed (a body that is
\* not JSON ends the request with an error status); a push to refs/heads/main
\* runs the update script and answers 200 or 500 by its outcome; anything
\* else is answered 200 "ignored".
github_webhook(body, signature, event, outcome) ==
    /\ deploy.script_runs < MaxDeploys
    /\ \E bad_body_status \in {400, 415, 500} :
        LET verified == verify_webhook_signature(body, signature)
            runs_script == verified /\ body.json /\ event = "push" /\ body.ref = "refs/heads/main"
            status == IF ~verified THEN 401
                      ELSE IF ~body.json THEN bad_body_status
                      ELSE IF ~runs_script THEN 200
                      ELSE IF outcome = "returncode 0" THEN 200 ELSE 500
        IN  deploy' = [signature |-> signature, body |-> body, event |-> event, status |-> status,
                       ran |-> runs_script,
                       script_runs |-> deploy.script_runs + (IF runs_script THEN 1 ELSE 0)]
    /\ UNCHANGED <<throttleVars, companyVars, transactions, dupVars, botVars, rateVars, catVars,
                   sessVars, runs, dispatcher>>

InitDeploy ==
    /\ now = 0
    /\ InitThrottleIdle
    /\ InitCompanyIdle
    /\ InitBotIdle
    /\ InitSvcIdle

NextDeploy ==
    \E body \in Bodies, signature \in SignatureHeaders, event \in Events, outcome \in ScriptOutcomes :
        github_webhook(body, signature, event, outcome)

SpecDeploy == InitDeploy /\ [][NextDeploy]_vars

\* C29: every step in which the update script runs handles a request whose
\* signature header is the HMAC-SHA256 of its body under the shared secret,
\* whose event is push and whose ref is the main branch.
C29_ScriptOnlyForSignedPushToMain ==
    [][deploy'.script_runs # deploy.script_runs
          => /\ deploy'.signature.alg = "sha256"
             /\ deploy'.signature.key = WEBHOOK_SECRET
             /\ deploy'.signature.body = deploy'.body
             /\ deploy'.event = "push"
             /\ deploy'.body.ref = "refs/heads/main"]_vars

\* The script ran for a signed push to main and answered 200.
C29_Witness ==
    /\ deploy.ran
    /\ deploy.script_runs >= 1
    /\ deploy.status = 200

\* C30: a press of a category button (quick_category:<key>) by a user whose
\* session is in ReceiptStates:choosing_category creates the transaction and
\* returns the session to idle.
C30_ChosenCategoryIsSaved ==
    (/\ lastUpdate.state = "ReceiptStates:choosing_category"
     /\ lastUpdate.update.kind = "callback_query"
     /\ lastUpdate.update.key = "quick_category")
        => /\ lastUpdate.saved # 0
           /\ fsm[lastUpdate.user].state = None

\* ------------------------------------------------------------------------
\* The receipt flows alone: photos (one of them in a foreign currency),
\* documents, the texts that answer a question of the flow, and the buttons
\* the flow shows.
ForeignPhotoMessages ==
    {[kind |-> "message", content |-> "photo", key |-> "", arg |-> "",
      ocr |-> [amount |-> 50000, merchant |-> NoText, date |-> 3, category |-> "food",
               confidence |-> 90, currency |-> "USD"],
      mime_ok |-> TRUE]}

ReceiptMessages ==
    PhotoMessages \cup ForeignPhotoMessages \cup DocumentMessages
        \cup {m \in TextMessages : m.key = ""}

ReceiptCallbacks ==
    {[kind |-> "callback_query", content |-> "callback", key |-> t[1], arg |-> t[2],
      ocr |-> NoOcr, mime_ok |-> TRUE] :
        t \in {<<"quick_category", "food">>, <<"cancel", "">>,
               <<"confirm_duplicate_photo", "">>, <<"cancel_duplicate_photo", "">>,
               <<"confirm_duplicate_document", "">>, <<"cancel_duplicate_document", "">>,
               <<"currency", "original">>, <<"clarify_amount", "manual">>,
               <<"clarify_amount", "500">>}}

NextReceipt ==
    \/ \E u \in BotUsers, upd \in ReceiptMessages : OnMessage(u, upd)
    \/ \E u \in BotUsers, upd \in ReceiptCallbacks : OnCallback(u, upd)

SpecReceipt == InitBot /\ [][NextReceipt]_vars

ReceiptHandlers ==
    {"photo.process_receipt_photo", "photo.process_description_request",
     "photo.process_manual_amount_input", "photo.process_receipt_category",
     "photo.confirm_duplicate_photo", "document.process_receipt_document",
     "document.confirm_duplicate_document"}

C32_RefusedDocumentAllowsRetry ==
    (/\ lastUpdate.handler = "document.process_receipt_document"
     /\ lastUpdate.reply = "document.unsupported_format")
        => fsm[lastUpdate.user].state \in {lastUpdate.state, None}

\* ------------------------------------------------------------------------
\* A button press that completes an expense, delivered more than once.  The
\* dispatcher starts a handler run as a task for every update whose filters
\* pass at dispatch; a run is suspended at its awaited database and Telegram
\* calls, where another run may go on.  Expenses are told apart by their
\* amount: the n-th expense entered is of 500.00 + n.

MaxExpenses == 2

CompletingState(h) ==
    IF h = "expense.process_quick_category" THEN "ExpenseStates:waiting_for_category"
    ELSE "ReceiptStates:confirming_duplicate"

CompletingHandlers ==
    {"expense.process_quick_category", "photo.confirm_duplicate_photo",
     "document.confirm_duplicate_document"}

CompletingKeywords(h) ==
    IF h = "expense.process_quick_category" THEN TextCallKeywords \ {"merchant"}
    ELSE IF h = "photo.confirm_duplicate_photo" THEN PhotoCallKeywords
    ELSE DocumentCallKeywords

InFlight(u) == {i \in DOMAIN runs : runs[i].user = u /\ runs[i].pc \notin {"done", "raised"}}

\* Mutant: state.clear() leaves the session as it is.
state_clear_skipped(session) == session

\* await state.clear()
state_clear(session) == [state |-> None, data |-> NoData]

PressFrame == UNCHANGED <<throttleVars, companyVars, dupVars, users, lastUpdate, rateVars, catVars,
                          sessVars, deploy, dispatcher>>

\* The user has entered an expense (expense.process_expense_input) or sent a
\* receipt that the search found to be a duplicate: the session holds its
\* data and waits for the button.
enter_expense(u, st, n) ==
    /\ fsm[u].state = None
    /\ n \in 1..MaxExpenses
    /\ \A i \in DOMAIN runs : runs[i].entered # 50000 + n
    /\ \A i \in DOMAIN transactions : transactions[i].amount # 50000 + n
    /\ fsm' = [fsm EXCEPT ![u] = [state |-> st,
                                  data |-> [NoData EXCEPT !.amount = 50000 + n, !.currency = PrimaryCurrency,
                                                          !.transaction_date = now, !.category_id = "food"]]]
    /\ UNCHANGED <<transactions, runs>>
    /\ PressFrame

\* The press reaches the router: the state filter is read now, and when it
\* passes the handler starts as a task of its own.
press_dispatch(u, h) ==
    /\ Len(runs) < MaxRuns
    /\ fsm[u].state = CompletingState(h)
    /\ runs' = [i \in 1..(Len(runs) + 1) |->
                   IF i = Len(runs) + 1
                   THEN [handler |-> h, user |-> u, pc |-> "dispatched", entered |-> fsm[u].data.amount,
                         data |-> NoData, overlapped |-> InFlight(u) # {}]
                   ELSE IF i \in InFlight(u) THEN [runs[i] EXCEPT !.overlapped = TRUE]
                   ELSE runs[i]]
    /\ UNCHANGED <<fsm, transactions>>
    /\ PressFrame

\* One run goes on to its next suspension point: state.get_data() (data['amount']
\* raises KeyError once the session is cleared); create_transaction and
\* commit (TypeError when the call does not bind); the reply and
\* state.clear().
press_run(i) ==
    LET r == runs[i]
        row == create_transaction(r.user, r.data.amount, r.data.currency, r.data.category_id,
                                  r.data.merchant, r.data.transaction_date, 0, 0)
    IN  /\ \/ /\ r.pc = "dispatched"
              /\ runs' = [runs EXCEPT ![i].data = fsm[r.user].data,
                                      ![i].pc = IF fsm[r.user].data.amount = 0 THEN "raised" ELSE "read"]
              /\ UNCHANGED <<fsm, transactions>>
           \/ /\ r.pc = "read"
              /\ IF Binds(CompletingKeywords(r.handler))
                 THEN /\ Len(transactions) < MaxTx
                      /\ transactions' = Append(transactions, row)
                      /\ runs' = [runs EXCEPT ![i].pc = "committed"]
                 ELSE /\ runs' = [runs EXCEPT ![i].pc = "raised"]
                      /\ UNCHANGED transactions
              /\ UNCHANGED fsm
           \/ /\ r.pc = "committed"
              /\ fsm' = [fsm EXCEPT ![r.user] = state_clear(@)]
              /\ runs' = [runs EXCEPT ![i].pc = "done"]
              /\ UNCHANGED transactions
        /\ PressFrame

NextPress ==
    \/ \E u \in BotUsers, n \in 1..MaxExpenses, h \in CompletingHandlers : enter_expense(u, CompletingState(h), n)
    \/ \E u \in BotUsers, h \in CompletingHandlers : press_dispatch(u, h)
    \/ \E i \in 1..Len(runs) : press_run(i)

SpecPress == InitBot /\ [][NextPress]_vars

RowsOf(amount) == {i \in DOMAIN transactions : transactions[i].amount = amount}
RunsOf(amount) == {i \in DOMAIN runs : runs[i].data.amount = amount}

MaxDocs == 3

DocumentHandler == "document.process_receipt_document"

DocFrame == UNCHANGED <<throttleVars, companyVars, transactions, dupVars, users, lastUpdate, rateVars,
                        catVars, sessVars, deploy, dispatcher>>

\* A run of the handler at one of its points.
DocRun(u, pc, current_state, reply) ==
    [handler |-> DocumentHandler, user |-> u, pc |-> pc, current_state |-> current_state, reply |-> reply]

\* Line 68: the storage answers get_state; lines 69-72 reject when there is
\* a state, otherwise the run goes on to set_state.
get_state(u, i, rs) ==
    IF fsm[u].state # None
    THEN [rs EXCEPT ![i] = DocRun(u, "rejected", fsm[u].state, "document.wait")]
    ELSE [rs EXCEPT ![i] = DocRun(u, "set_state", None, None)]

\* Line 76: the storage writes processing_image.
set_state(u, i, rs) == [rs EXCEPT ![i] = DocRun(u, "processing", None, None)]

\* A document of user u reaches the handler, which starts as a task and runs
\* to its first suspension: with MemoryStorage that is past line 76.
document_arrives(u) ==
    LET i == Len(runs) + 1
        started == Append(runs, DocRun(u, "get_state", None, None))
    IN  /\ Len(runs) < MaxDocs
        /\ IF dispatcher.storage = "MemoryStorage"
           THEN IF fsm[u].state # None
                THEN /\ runs' = get_state(u, i, started)
                     /\ UNCHANGED fsm
                ELSE /\ runs' = set_state(u, i, started)
                     /\ fsm' = [fsm EXCEPT ![u].state = "ReceiptStates:processing_image"]
           ELSE /\ runs' = started
                /\ UNCHANGED fsm
        /\ DocFrame

\* One run goes on to its next suspension: the answer to get_state and the
\* write of set_state (RedisStorage), or the end of the processing: a refused
\* file returns with the state still set (lines 81-117), every other end
\* clears the session.
document_run(i) ==
    LET r == runs[i]
    IN  /\ \/ /\ r.pc = "get_state"
              /\ runs' = get_state(r.user, i, runs)
              /\ UNCHANGED fsm
           \/ /\ r.pc = "set_state"
              /\ runs' = set_state(r.user, i, runs)
              /\ fsm' = [fsm EXCEPT ![r.user].state = "ReceiptStates:processing_image"]
           \/ /\ r.pc = "processing"
              /\ \E refused \in BOOLEAN :
                    /\ runs' = [runs EXCEPT ![i].pc = "done",
                                            ![i].reply = IF refused THEN "document.refused" ELSE "document.end"]
                    /\ fsm' = IF refused THEN fsm ELSE [fsm EXCEPT ![r.user] = state_clear(@)]
        /\ DocFrame

NextDocs ==
    \/ \E u \in BotUsers : document_arrives(u)
    \/ \E i \in DOMAIN runs : document_run(i)

\* Nobody is in a dialog; the dispatcher is that of either runtime.
InitDocs ==
    /\ now = 0
    /\ InitThrottleIdle
    /\ InitCompanyIdle
    /\ InitRatesIdle
    /\ InitCatIdle
    /\ InitSessIdle
    /\ runs = <<>>
    /\ deploy = NoDeploy
    /\ dispatcher \in {main_dp, main_hot_reload_dp}
    /\ lastSearch = NoSearch
    /\ fsm = [u \in BotUsers |-> [state |-> None, data |-> NoData]]
    /\ users = [u \in BotUsers |-> [active_company_id |-> None]]
    /\ lastUpdate = NoHandled

SpecDocs == InitDocs /\ [][NextDocs]_vars

Processing(u) == {i \in DOMAIN runs : runs[i].user = u /\ runs[i].pc = "processing"}

\* C34: for one user at most one document is being processed at a time, and
\* a document whose handler found the session in a state was rejected, under
\* both runtimes and every interleaving of the runs.
C34_OneDocumentAtATime ==
    /\ \A u \in BotUsers : Cardinality(Processing(u)) <= 1
    /\ \A i \in DOMAIN runs : runs[i].current_state # None => runs[i].pc = "rejected"

\* ------------------------------------------------------------------------
\* bot/states.py, class ReceiptStates: the states of the receipt flow, as
\* get_state() returns them.
ReceiptStatesGroup ==
    {"ReceiptStates:processing_image", "ReceiptStates:confirming_data", "ReceiptStates:editing_amount",
     "ReceiptStates:editing_merchant", "ReceiptStates:selecting_category", "ReceiptStates:selecting_currency",
     "ReceiptStates:confirming_duplicate", "ReceiptStates:choosing_category", "ReceiptStates:clarifying_amount",
     "ReceiptStates:clarifying_category", "ReceiptStates:asking_description"}

\* C35: a photo that arrives while the sender's session is in a state of the
\* receipt flow is answered with the wait notice, and the session (state and
\* data) is what it was before.
C35_PhotoDuringReceiptRejected ==
    [][(/\ lastUpdate'.handler = "photo.process_receipt_photo"
        /\ fsm[lastUpdate'.user].state \in ReceiptStatesGroup)
           => (/\ lastUpdate'.reply = "wait"
               /\ fsm'[lastUpdate'.user] = fsm[lastUpdate'.user])]_vars

\* ------------------------------------------------------------------------
\* The requests of user u that either gate passed on within the 60 seconds
\* before t.
AcceptedOfEitherKind(u, t) ==
    Len(InWindow(accepted["message"][u], t)) + Len(InWindow(accepted["callback_query"][u], t))

\* C36: the limit counts a user's messages and button presses together: a
\* request of either kind that arrives when the user's requests of both kinds
\* accepted within the preceding 60 seconds have reached the limit is rejected.
C36_LimitCountsBothKinds ==
    [][(/\ now' = now
        /\ AcceptedOfEitherKind(lastReq'.user, now) >= rate_limit)
           => (lastReq'.notice /\ ~lastReq'.handler)]_vars

\* ------------------------------------------------------------------------
\* The only handler that saves a receipt after the user has answered the
\* question of photo.process_currency_selection (option "original" stores
\* rate 1.0000 and the entered amount in the session).
KeepOriginalHandlers == {"photo.process_receipt_category"}

\* The row is in a currency other than its user's primary one, at rate 1.0000
\* and with amount_primary equal to the entered amount.
UnconvertedForeign(row) ==
    /\ row.currency # users[row.user_id].primary_currency
    /\ row.exchange_rate = RateScale
    /\ row.amount_primary = row.amount

\* C37: a row in a foreign currency is stored at rate 1.0000 with
\* amount_primary equal to the entered amount only by the handler that
\* completes a receipt after the user chose to keep the original currency; a
\* conversion that failed never stores such a row.
C37_UnconvertedOnlyByChoice ==
    [][\A i \in DOMAIN transactions' :
          (i \notin DOMAIN transactions /\ UnconvertedForeign(transactions'[i]))
              => lastUpdate'.handler \in KeepOriginalHandlers]_vars

\* ------------------------------------------------------------------------
\* company.show_company_reports_menu: for a member of the company, the
\* company is made the active one and committed (lines 715-717); then
\* analytics_menu(callback.message, FSMContext()) is evaluated.  FSMContext
\* has two required parameters (storage, key), so the argument raises
\* TypeError before analytics_menu is entered; nothing catches it, and the
\* lines that put the original value back (723-724) are not reached.
show_company_reports_menu(u, upd) ==
    LET h == "company.show_company_reports_menu"
        original_company_id == users[u].active_company_id
    IN  /\ IF upd.arg \notin DOMAIN companies
           THEN CompanyAnswer(u, upd, h, original_company_id, "company.not_found")
           ELSE IF \A m \in company_members : ~(m.company_id = upd.arg /\ m.user_id = u)
           THEN CompanyAnswer(u, upd, h, original_company_id, "company.not_member")
           ELSE /\ users' = [users EXCEPT ![u].active_company_id = upd.arg]
                /\ lastUpdate' = [update |-> upd, handler |-> h, user |-> u, state |-> fsm[u].state,
                                  company |-> original_company_id, saved |-> 0, reply |-> None,
                                  buttons |-> {}, dup |-> None, raised |-> "TypeError"]
                /\ lastSearch' = NoSearch
                /\ UNCHANGED <<fsm, transactions>>
        /\ UNCHANGED <<throttleVars, companyVars, svcVars>>

ReportsCallbacks ==
    {[kind |-> "callback_query", content |-> "callback", key |-> t[1], arg |-> t[2],
      ocr |-> NoOcr, mime_ok |-> TRUE] :
        t \in {<<"company_reports", "c1">>, <<"company_reports", "c2">>}}

CompanyCallbacks == {c \in Callbacks : c.key \in {"company_activate", "company_switch", "cancel"}}

NextReports ==
    \/ \E u \in BotUsers, upd \in ReportsCallbacks : show_company_reports_menu(u, upd)
    \/ \E u \in BotUsers, upd \in CompanyCallbacks : OnCallback(u, upd)
    \/ \E u \in BotUsers, upd \in ReceiptMessages : OnMessage(u, upd)

SpecReports == InitBot /\ [][NextReports]_vars

\* C38: after the reports menu of a company was opened, however the handler
\* ended, the user's active_company_id is what it was before.
C38_ReportsMenuKeepsActiveCompany ==
    lastUpdate.handler = "company.show_company_reports_menu"
        => users[lastUpdate.user].active_company_id = lastUpdate.company

\* ------------------------------------------------------------------------
\* The merge of live rates, over answers of the three APIs.  A table maps a
\* pair <<from, to>> to its rate (whole units here).

NoTable == <<>>

\* National Bank: tenge for one unit, and nothing else.
NbkzAnswers ==
    {NoTable,
     [k \in {<<"USD", "KZT">>} |-> 450],
     [k \in {<<"USD", "KZT">>, <<"EUR", "KZT">>} |-> IF k[1] = "USD" THEN 450 ELSE 500]}

\* ExchangeRate-API with base KZT: pairs from and to KZT and cross pairs; its
\* values differ from the National Bank's.
ExchangerateAnswers ==
    {NoTable,
     [k \in {<<"USD", "KZT">>} |-> 455],
     [k \in {<<"EUR", "KZT">>, <<"USD", "EUR">>} |-> IF k[1] = "EUR" THEN 505 ELSE 1],
     [k \in {<<"USD", "KZT">>, <<"RUB", "KZT">>} |-> IF k[1] = "USD" THEN 455 ELSE 7]}

\* Fixer.io: pairs from its base EUR.
FixerAnswers ==
    {NoTable, [k \in {<<"EUR", "USD">>} |-> 1], [k \in {<<"EUR", "USD">>, <<"EUR", "RUB">>} |-> IF k[2] = "USD" THEN 1 ELSE 90]}

InitFetch ==
    /\ now = 0
    /\ InitThrottleIdle
    /\ InitCompanyIdle
    /\ InitBotIdle
    /\ redis = {}
    /\ exchange_rates = <<>>
    /\ \E nbkz \in NbkzAnswers, exchangerate \in ExchangerateAnswers, fixer \in FixerAnswers :
       \E exchangerate_enabled \in BOOLEAN, fixer_enabled \in BOOLEAN :
          api = [nbkz |-> nbkz, exchangerate |-> exchangerate, fixer |-> fixer,
                 exchangerate_enabled |-> exchangerate_enabled, fixer_enabled |-> fixer_enabled]
    /\ lastRate = NoRateCall
    /\ InitCatIdle
    /\ InitSessIdle
    /\ InitSysIdle

\* One call of _fetch_rates_from_api.
fetch_rates_from_api ==
    LET r == all_rates(api.nbkz, api.exchangerate_enabled, api.exchangerate, api.fixer_enabled, api.fixer)
    IN  /\ lastRate.op = None
        /\ lastRate' = [op |-> "_fetch_rates_from_api", all_rates |-> r.rates, asked |-> r.asked]
        /\ UNCHANGED <<throttleVars, companyVars, transactions, dupVars, botVars, redis, exchange_rates, api,
                       catVars, sessVars, sysVars>>

NextFetch == fetch_rates_from_api

SpecFetch == InitFetch /\ [][NextFetch]_vars

\* C40: in the merged table a pair the National Bank supplied has the
\* National Bank's value, the commercial API contributing only the pairs
\* still missing, and the third API is asked only when the first two gave
\* nothing.
C40_NationalBankValueKept ==
    lastRate.op = "_fetch_rates_from_api" =>
        /\ \A k \in DOMAIN api.nbkz : lastRate.all_rates[k] = api.nbkz[k]
        /\ \A k \in DOMAIN lastRate.all_rates \ DOMAIN api.nbkz :
              k \in DOMAIN api.exchangerate \/ k \in DOMAIN api.fixer
        /\ "fixer" \in lastRate.asked =>
              /\ DOMAIN api.nbkz = {}
              /\ ~api.exchangerate_enabled \/ DOMAIN api.exchangerate = {}

\* ------------------------------------------------------------------------
\* Hot reload (utils/hot_reload.py), which main_hot_reload.py starts in the
\* development environment.  Each reload follows a change of a handler file;
\* the k-th reload imports the handler modules as they are then (import k).
\* reload_bot has no await before its notification, so it is one step.

ReloadHandler == "hot_reload.reload_bot"

Reloads == {i \in DOMAIN runs : runs[i].handler = ReloadHandler}

\* Line 77 reads self.dp._routers.  The repository fixes no aiogram version;
\* a Dispatcher of aiogram 3 keeps its routers in sub_routers and has no
\* attribute _routers, so both kinds of object are considered.
DispatcherAttributes == {{"sub_routers"}, {"sub_routers", "_routers"}}

\* What setup_handlers() returns for the modules of import k.
setup_handlers(k) == [router |-> "setup_handlers", imported |-> k]

\* dp.message.middleware(m) and dp.callback_query.middleware(m): one more
\* middleware at the inner end of each chain.
add_middleware(dp, m) ==
    [dp EXCEPT !.message = Append(@, m), !.callback_query = Append(@, m)]

\* HotReloadManager.reload_bot: without the attribute line 77 raises
\* AttributeError, the except logs it and the dispatcher is as before; with
\* it the routers are cleared, the new router is included and a
\* ThrottlingMiddleware is added to each observer.
reload_bot ==
    LET k == Cardinality(Reloads) + 1
        Run(pc, raised) == [handler |-> ReloadHandler, user |-> 0, pc |-> pc, raised |-> raised,
                            imported |-> k]
    IN  /\ Len(runs) < MaxRuns
        /\ IF "_routers" \notin dispatcher.attributes
           THEN /\ runs' = Append(runs, Run("raised", "AttributeError"))
                /\ UNCHANGED dispatcher
           ELSE /\ runs' = Append(runs, Run("done", None))
                /\ dispatcher' = add_middleware([dispatcher EXCEPT !.routers = <<setup_handlers(k)>>],
                                                "ThrottlingMiddleware")
        /\ UNCHANGED <<throttleVars, companyVars, transactions, dupVars, botVars, rateVars, catVars,
                       sessVars, deploy>>

\* The development runtime just started.
InitReload ==
    /\ now = 0
    /\ InitThrottleIdle
    /\ InitCompanyIdle
    /\ InitBotIdle
    /\ InitRatesIdle
    /\ InitCatIdle
    /\ InitSessIdle
    /\ runs = <<>>
    /\ deploy = NoDeploy
    /\ \E attributes \in DispatcherAttributes :
          dispatcher = [main_hot_reload_dp EXCEPT !.attributes = attributes]

NextReload ==
    \/ reload_bot
    \/ \E g \in Gates, u \in Users : feed_update(g, u)

SpecReload == InitReload /\ [][NextReload]_vars

\* The dispatcher of the development runtime started on the handler modules
\* of import k.
FreshlyStarted(k) == [main_hot_reload_dp EXCEPT !.routers = <<setup_handlers(k)>>]

\* C39: after any number of hot reloads the dispatcher has the routers and
\* the middleware chains of a runtime freshly started on the same handler
\* files: each handler router once, and on each observer the same gates with
\* one throttling gate.
C39_ReloadedIsFresh ==
    Reloads # {} =>
        LET fresh == FreshlyStarted(Cardinality(Reloads))
        IN  /\ dispatcher.routers = fresh.routers
            /\ \A g \in Gates : dispatcher[g] = fresh[g]

=============================================================================
